---- MODULE Spec2Model ----
(***************************************************************************)
(* Authorization orchestration engine of oaa-web-server                    *)
(* (OrchestrationService, src/unnamed/part_005).                           *)
(*                                                                         *)
(* One call of orchestrateAuthorization is a process that moves from one   *)
(* awaited stage to the next.  The audit table is shared, persistent       *)
(* state: the engine appends to it (auditRepository.save) and reads it     *)
(* back through two windowed count queries (auditRepository.count).        *)
(*                                                                         *)
(* Strings built with template literals and Array.join are modelled as     *)
(* sequences of their parts, a missing (undefined) property as the value   *)
(* Undefined, an optional field of an object as a field that is or is not  *)
(* in the DOMAIN of the record.                                            *)
(***************************************************************************)
EXTENDS Integers, Sequences, FiniteSets, TLC

VARIABLES
    pc,              \* position of the call inside orchestrateAuthorization
    ctx,             \* the AuthContext argument
    clock,           \* what new Date() gives during the call: hour, holiday
    roleCheck,       \* const roleCheck       (part_005:63)
    contextCheck,    \* const contextCheck    (part_005:70)
    recentActions,   \* result of the last-hour count query (part_005:231)
    riskAssessment,  \* const riskAssessment  (part_005:81)
    sessionCheck,    \* const sessionCheck    (part_005:84)
    failedAttempts,  \* result of the LOGIN_FAILED count query (part_005:458)
    dynamicCheck,    \* const dynamicCheck    (part_005:87)
    pending,         \* arguments of the logAuthEvent call in progress and
                     \* the value the call returns after it
    error,           \* the error caught at part_005:107
    saveCalls,       \* auditRepository.save calls issued by this call
    result,          \* the AuthDecision the promise resolved with
    outcome,         \* "none" | "returned" | "thrown"
    auditStore,      \* the audit_logs table, as the count queries see it
    calls,           \* number of calls started so far
    request,         \* the HTTP request and the handler's options, as
                     \* OrchestrationGuard.canActivate reads them
    activation,      \* what canActivate resolved or rejected with
    procs,           \* the calls of orchestrateAuthorization in flight at
                     \* the same time, each with its own locals
    initialStore,    \* the audit table before any of those calls began
    users,           \* the users table (src/unnamed/part_000:87-183)
    now,             \* the time new Date() gives, in minutes
    logins,          \* the calls of AuthService.login in flight
    auditLog,        \* the audit_logs rows AuthService has saved
    authLog,         \* what the clients of AuthService have done and seen
    accounts,        \* the accounts table
    transfers,       \* the calls of BankingService.transfer in flight
    bankLog          \* the accounts table before any transfer began

vars == <<pc, ctx, clock, roleCheck, contextCheck, recentActions,
          riskAssessment, sessionCheck, failedAttempts, dynamicCheck,
          pending, error, saveCalls, result, outcome, auditStore, calls,
          request, activation, procs, initialStore, users, now, logins,
          auditLog, authLog, accounts, transfers, bankLog>>

-----------------------------------------------------------------------------
(* Bounds of the model                                                     *)

\* number of calls of orchestrateAuthorization in one behaviour
MaxCalls == 1

-----------------------------------------------------------------------------
(* Values                                                                  *)

\* a local that has not been assigned yet
Null == [null |-> TRUE]

\* JavaScript undefined, as a property key and as a string
Undefined == "undefined"

\* metadata.amount absent (undefined) or 0: falsy, and never > a threshold
NoAmount == 0

\* src/src/common/enums/index.ts:1-7
UserRole == [BANK_ADMIN |-> "bank_admin", ACCOUNT_MANAGER |-> "account_manager",
             CLIENT |-> "client", AUDITOR |-> "auditor",
             COMPLIANCE_OFFICER |-> "compliance_officer"]

\* src/src/common/enums/index.ts:39-45
KycStatus == [NOT_STARTED |-> "not_started", IN_PROGRESS |-> "in_progress",
              APPROVED |-> "approved", REJECTED |-> "rejected",
              EXPIRED |-> "expired"]

\* Array.prototype.includes
Includes(arr, x) == \E i \in DOMAIN arr : arr[i] = x

\* Array.prototype.join(sep) on an array of strings (sequences of parts)
RECURSIVE Join(_, _)
Join(arr, sep) ==
    IF arr = <<>> THEN <<>>
    ELSE IF Len(arr) = 1 THEN Head(arr)
    ELSE Head(arr) \o <<sep>> \o Join(Tail(arr), sep)

\* { ...obj, key: value }
With(obj, key, value) ==
    [f \in DOMAIN obj \cup {key} |-> IF f = key THEN value ELSE obj[f]]

\* { ...a, ...b }
Spread(a, b) ==
    [f \in DOMAIN a \cup DOMAIN b |-> IF f \in DOMAIN b THEN b[f] ELSE a[f]]

\* obj.key of an optional boolean field, as a condition (undefined is falsy)
Truthy(obj, key) == key \in DOMAIN obj /\ obj[key] = TRUE

-----------------------------------------------------------------------------
(* Role Check                                                              *)

\* properties every object literal inherits from Object.prototype; reading
\* one of them gives a function, which is truthy and has no includes method
ObjectPrototypeKeys == {"constructor", "toString", "valueOf", "hasOwnProperty"}

\* part_005:135-160
permissions ==
    [role \in {UserRole.CLIENT, UserRole.ACCOUNT_MANAGER,
               UserRole.COMPLIANCE_OFFICER, UserRole.BANK_ADMIN} |->
        CASE role = UserRole.CLIENT ->
               [res \in {"banking/accounts", "banking/transactions",
                         "profile", "dashboard"} |->
                   CASE res = "banking/accounts" -> <<"read", "create">>
                     [] res = "banking/transactions" -> <<"read", "create">>
                     [] res = "profile" -> <<"read", "update">>
                     [] res = "dashboard" -> <<"read">>]
          [] role = UserRole.ACCOUNT_MANAGER ->
               [res \in {"banking/accounts", "banking/transactions",
                         "customer", "reports", "dashboard"} |->
                   CASE res = "banking/accounts" ->
                            <<"read", "create", "update", "approve">>
                     [] res = "banking/transactions" ->
                            <<"read", "create", "approve">>
                     [] res = "customer" -> <<"read", "update">>
                     [] res = "reports" -> <<"read">>
                     [] res = "dashboard" -> <<"read">>]
          [] role = UserRole.COMPLIANCE_OFFICER ->
               [res \in {"banking/accounts", "banking/transactions", "audit",
                         "compliance", "reports", "dashboard"} |->
                   CASE res = "banking/accounts" ->
                            <<"read", "suspend", "investigate">>
                     [] res = "banking/transactions" ->
                            <<"read", "investigate", "flag">>
                     [] res = "audit" -> <<"read", "export">>
                     [] res = "compliance" -> <<"read", "update">>
                     [] res = "reports" -> <<"read", "export">>
                     [] res = "dashboard" -> <<"read">>]
          [] role = UserRole.BANK_ADMIN ->
               [res \in {"*"} |-> <<"*">>]]

\* part_005:162  permissions[user.role] || {}
UserPermissions(role) ==
    IF role \in DOMAIN permissions THEN permissions[role] ELSE <<>>

\* part_005:163-164 reads userPermissions[resource]: an own property, a
\* function inherited from Object.prototype, or undefined
ResourceLookupThrows(role, resource) ==
    /\ resource \notin DOMAIN UserPermissions(role)
    /\ resource \in ObjectPrototypeKeys

\* ResourcePermissions without the fallback to the wildcard resource
ResourcePermissions_NoWildcard(role, resource) ==
    LET userPermissions == UserPermissions(role)
    IN  IF resource \in DOMAIN userPermissions THEN userPermissions[resource]
        ELSE <<>>

\* part_005:163-164  userPermissions[resource] || userPermissions['*'] || []
ResourcePermissions(role, resource) ==
    LET userPermissions == UserPermissions(role)
    IN  IF resource \in DOMAIN userPermissions THEN userPermissions[resource]
        ELSE IF "*" \in DOMAIN userPermissions THEN userPermissions["*"]
        ELSE <<>>

\* CheckRoleBasedAccess granting whatever action once the resource has a
\* non-empty entry
CheckRoleBasedAccess_AnyAction(context) ==
    LET user == context.user
        resource == context.resource
        action == context.action
        resourcePermissions == ResourcePermissions(user.role, resource)
        hasAccess == Len(resourcePermissions) > 0
    IN  [allowed |-> hasAccess,
         reason |-> IF hasAccess
                    THEN <<"Role ", user.role, " has ", action,
                           " access to ", resource>>
                    ELSE <<"Role ", user.role, " lacks ", action,
                           " access to ", resource>>]

\* part_005:129-175; defined when ResourceLookupThrows is false
CheckRoleBasedAccess(context) ==
    LET user == context.user
        resource == context.resource
        action == context.action
        resourcePermissions == ResourcePermissions(user.role, resource)
        hasAccess == \/ Includes(resourcePermissions, action)
                     \/ Includes(resourcePermissions, "*")
    IN  [allowed |-> hasAccess,
         reason |-> IF hasAccess
                    THEN <<"Role ", user.role, " has ", action,
                           " access to ", resource>>
                    ELSE <<"Role ", user.role, " lacks ", action,
                           " access to ", resource>>]

-----------------------------------------------------------------------------
(* Contextual Check                                                        *)

\* part_005:198
suspiciousIPs == <<"192.168.1.100", "10.0.0.50">>

\* part_005:206  user.metadata?.trustedDevices || []
TrustedDevices(user) == user.trustedDevices

\* CheckContextualAccess in which an unrecognized device is reported but
\* does not count against allowed
CheckContextualAccess_DeviceAdvisory(context, currentHour) ==
    LET user == context.user
        metadata == context.metadata
        timeRestriction ==
            IF /\ user.role = UserRole.CLIENT
               /\ (currentHour < 6 \/ currentHour > 22)
            THEN <<<<"Banking operations restricted during night hours (6 AM - 10 PM)">>>>
            ELSE <<>>
        ipRestriction ==
            IF /\ metadata.ipAddress # Undefined
               /\ Includes(suspiciousIPs, metadata.ipAddress)
            THEN <<<<"Access from suspicious IP address">>>>
            ELSE <<>>
        deviceRestriction ==
            IF /\ metadata.deviceFingerprint # Undefined
               /\ ~Includes(TrustedDevices(user), metadata.deviceFingerprint)
            THEN <<<<"Access from unrecognized device">>>>
            ELSE <<>>
        blocking == timeRestriction \o ipRestriction
        restrictions == blocking \o deviceRestriction
    IN  [allowed |-> Len(blocking) = 0,
         reason |-> IF Len(blocking) = 0
                    THEN <<"All contextual checks passed">>
                    ELSE Join(restrictions, "; "),
         additionalChecks |-> restrictions]

\* part_005:180-220; currentHour is new Date().getHours()
CheckContextualAccess(context, currentHour) ==
    LET user == context.user
        metadata == context.metadata
        timeRestriction ==
            IF /\ user.role = UserRole.CLIENT
               /\ (currentHour < 6 \/ currentHour > 22)
            THEN <<<<"Banking operations restricted during night hours (6 AM - 10 PM)">>>>
            ELSE <<>>
        ipRestriction ==
            IF /\ metadata.ipAddress # Undefined
               /\ Includes(suspiciousIPs, metadata.ipAddress)
            THEN <<<<"Access from suspicious IP address">>>>
            ELSE <<>>
        deviceRestriction ==
            IF /\ metadata.deviceFingerprint # Undefined
               /\ ~Includes(TrustedDevices(user), metadata.deviceFingerprint)
            THEN <<<<"Access from unrecognized device">>>>
            ELSE <<>>
        restrictions == timeRestriction \o ipRestriction \o deviceRestriction
    IN  [allowed |-> Len(restrictions) = 0,
         reason |-> IF Len(restrictions) = 0
                    THEN <<"All contextual checks passed">>
                    ELSE Join(restrictions, "; "),
         additionalChecks |-> restrictions]

-----------------------------------------------------------------------------
(* Risk Scorer                                                             *)

\* part_005:238
highRiskActions == <<"transfer", "withdraw", "delete", "admin">>

\* part_005:259
knownBadIPs == <<"192.168.1.100">>

\* part_005:273-277
Recommendation(riskScore) ==
    IF riskScore >= 70 THEN "DENY"
    ELSE IF riskScore >= 50 THEN "CHALLENGE"
    ELSE IF riskScore >= 30 THEN "MONITOR"
    ELSE "ALLOW"

\* part_005:225-284; recentActionsCount is what getRecentUserActions
\* resolved with, currentHour is new Date().getHours()
AssessRisk(context, recentActionsCount, currentHour) ==
    LET user == context.user
        action == context.action
        metadata == context.metadata
        frequency == recentActionsCount > 50
        operation == Includes(highRiskActions, action)
        amount == metadata.amount # NoAmount /\ metadata.amount > 100000
        time == currentHour < 6 \/ currentHour > 22
        location == /\ metadata.ipAddress # Undefined
                    /\ Includes(knownBadIPs, metadata.ipAddress)
        kyc == user.kycStatus # KycStatus.APPROVED
        riskScore == (IF frequency THEN 30 ELSE 0)
                     + (IF operation THEN 20 ELSE 0)
                     + (IF amount THEN 25 ELSE 0)
                     + (IF time THEN 15 ELSE 0)
                     + (IF location THEN 40 ELSE 0)
                     + (IF kyc THEN 20 ELSE 0)
        riskFactors ==
            (IF frequency THEN <<"high_frequency_operations">> ELSE <<>>)
            \o (IF operation THEN <<"high_risk_operation">> ELSE <<>>)
            \o (IF amount THEN <<"large_transaction_amount">> ELSE <<>>)
            \o (IF time THEN <<"unusual_time_access">> ELSE <<>>)
            \o (IF location THEN <<"suspicious_ip_address">> ELSE <<>>)
            \o (IF kyc THEN <<"incomplete_kyc">> ELSE <<>>)
    IN  [score |-> riskScore,
         factors |-> riskFactors,
         recommendation |-> Recommendation(riskScore)]

-----------------------------------------------------------------------------
(* Session Policy Deriver                                                  *)

\* CheckSessionConstraints with the sensitive-action rule applied last, so
\* that it overwrites what the role rule and the amount rule have set
CheckSessionConstraints_ActionRuleLast(context) ==
    LET user == context.user
        action == context.action
        r0 == [monitoringLevel |-> "STANDARD"]
        r1 == IF Includes(<<UserRole.BANK_ADMIN, UserRole.COMPLIANCE_OFFICER>>,
                          user.role)
              THEN With(With(With(r0, "requireMFA", TRUE),
                             "maxSessionDuration", 60 * 60),
                        "monitoringLevel", "STRICT")
              ELSE r0
        r2 == IF /\ context.metadata.amount # NoAmount
                 /\ context.metadata.amount > 50000
              THEN With(With(r1, "requireReauth", TRUE),
                        "monitoringLevel", "STRICT")
              ELSE r1
        r3 == IF Includes(<<"transfer", "withdraw", "admin", "delete">>, action)
              THEN With(With(With(r2, "requireMFA", TRUE),
                             "maxSessionDuration", 30 * 60),
                        "monitoringLevel", "ENHANCED")
              ELSE r2
    IN  r3

\* part_005:289-321
CheckSessionConstraints(context) ==
    LET user == context.user
        action == context.action
        r0 == [monitoringLevel |-> "STANDARD"]
        r1 == IF Includes(<<"transfer", "withdraw", "admin", "delete">>, action)
              THEN With(With(With(r0, "requireMFA", TRUE),
                             "maxSessionDuration", 30 * 60),
                        "monitoringLevel", "ENHANCED")
              ELSE r0
        r2 == IF Includes(<<UserRole.BANK_ADMIN, UserRole.COMPLIANCE_OFFICER>>,
                          user.role)
              THEN With(With(With(r1, "requireMFA", TRUE),
                             "maxSessionDuration", 60 * 60),
                        "monitoringLevel", "STRICT")
              ELSE r1
        r3 == IF /\ context.metadata.amount # NoAmount
                 /\ context.metadata.amount > 50000
              THEN With(With(r2, "requireReauth", TRUE),
                        "monitoringLevel", "STRICT")
              ELSE r2
    IN  r3

-----------------------------------------------------------------------------
(* Dynamic Rule Engine                                                     *)

\* DetectSuspiciousPatterns with the threshold off by one (> 6)
DetectSuspiciousPatterns_OffByOne(failedAttemptsCount) ==
    IF failedAttemptsCount > 6
    THEN <<<<"multiple_failed_login_attempts">>>>
    ELSE <<>>

\* part_005:454-471, after the count query resolved with failedAttemptsCount
DetectSuspiciousPatterns(failedAttemptsCount) ==
    IF failedAttemptsCount > 5
    THEN <<<<"multiple_failed_login_attempts">>>>
    ELSE <<>>

\* UnverifiedLargeTransfer with the amount threshold of the Risk Scorer
UnverifiedLargeTransfer_RiskThreshold(context) ==
    /\ context.user.kycStatus # KycStatus.APPROVED
    /\ context.action = "transfer"
    /\ context.metadata.amount > 100000

\* part_005:340-345
UnverifiedLargeTransfer(context) ==
    /\ context.user.kycStatus # KycStatus.APPROVED
    /\ context.action = "transfer"
    /\ context.metadata.amount > 10000

\* ApplyDynamicSecurityRules testing the unverified large transfer before
\* the suspicious patterns
ApplyDynamicSecurityRules_KycFirst(context, failedAttemptsCount, isHoliday) ==
    LET user == context.user
        action == context.action
        suspiciousPatterns == DetectSuspiciousPatterns(failedAttemptsCount)
    IN  IF UnverifiedLargeTransfer(context)
        THEN [allowed |-> FALSE,
              reason |-> <<"Large transfers require KYC approval">>]
        ELSE IF Len(suspiciousPatterns) > 0
        THEN [allowed |-> FALSE,
              reason |-> <<"Suspicious patterns detected: ">>
                         \o Join(suspiciousPatterns, ", ")]
        ELSE IF /\ isHoliday
                /\ Includes(<<UserRole.CLIENT>>, user.role)
                /\ Includes(<<"transfer", "withdraw">>, action)
        THEN [allowed |-> FALSE,
              reason |-> <<"Banking operations limited during holidays">>]
        ELSE [allowed |-> TRUE,
              reason |-> <<"All dynamic security rules passed">>]

\* part_005:326-369; isHoliday is what checkIfHoliday resolved with
ApplyDynamicSecurityRules(context, failedAttemptsCount, isHoliday) ==
    LET user == context.user
        action == context.action
        suspiciousPatterns == DetectSuspiciousPatterns(failedAttemptsCount)
    IN  IF Len(suspiciousPatterns) > 0
        THEN [allowed |-> FALSE,
              reason |-> <<"Suspicious patterns detected: ">>
                         \o Join(suspiciousPatterns, ", ")]
        ELSE IF UnverifiedLargeTransfer(context)
        THEN [allowed |-> FALSE,
              reason |-> <<"Large transfers require KYC approval">>]
        ELSE IF /\ isHoliday
                /\ Includes(<<UserRole.CLIENT>>, user.role)
                /\ Includes(<<"transfer", "withdraw">>, action)
        THEN [allowed |-> FALSE,
              reason |-> <<"Banking operations limited during holidays">>]
        ELSE [allowed |-> TRUE,
              reason |-> <<"All dynamic security rules passed">>]

-----------------------------------------------------------------------------
(* Decision Merger                                                         *)

\* part_005:394-396  .filter((check) => !check.allowed).map((check) => check.reason)
RECURSIVE FailedReasons(_)
FailedReasons(checks) ==
    IF checks = <<>> THEN <<>>
    ELSE (IF ~Head(checks).allowed THEN <<Head(checks).reason>> ELSE <<>>)
         \o FailedReasons(Tail(checks))

\* MakeFinalDecision without the DENY case of the switch
MakeFinalDecision_NoDenyCase(role, context, risk, session, dynamic) ==
    IF ~role.allowed \/ ~context.allowed \/ ~dynamic.allowed
    THEN [allowed |-> FALSE,
          reason |-> Join(FailedReasons(<<role, context, dynamic>>), "; "),
          riskAssessment |-> risk,
          sessionRequirements |-> session]
    ELSE IF risk.recommendation = "CHALLENGE"
    THEN [allowed |-> TRUE,
          reason |-> <<"Access granted with additional security requirements">>,
          riskAssessment |-> risk,
          sessionRequirements |->
              With(With(With(session, "requireMFA", TRUE),
                        "requireReauth", TRUE),
                   "monitoringLevel", "ENHANCED")]
    ELSE [allowed |-> TRUE,
          reason |-> <<"Authorization granted">>,
          riskAssessment |-> risk,
          sessionRequirements |-> session]

\* MakeFinalDecision whose denial for a failed check attaches nothing
MakeFinalDecision_BareDenial(role, context, risk, session, dynamic) ==
    IF ~role.allowed \/ ~context.allowed \/ ~dynamic.allowed
    THEN [allowed |-> FALSE,
          reason |-> Join(FailedReasons(<<role, context, dynamic>>), "; ")]
    ELSE IF risk.recommendation = "DENY"
    THEN [allowed |-> FALSE,
          reason |-> <<"High risk operation denied (score: ",
                       ToString(risk.score), ")">>,
          riskAssessment |-> risk,
          sessionRequirements |-> session]
    ELSE IF risk.recommendation = "CHALLENGE"
    THEN [allowed |-> TRUE,
          reason |-> <<"Access granted with additional security requirements">>,
          riskAssessment |-> risk,
          sessionRequirements |->
              With(With(With(session, "requireMFA", TRUE),
                        "requireReauth", TRUE),
                   "monitoringLevel", "ENHANCED")]
    ELSE [allowed |-> TRUE,
          reason |-> <<"Authorization granted">>,
          riskAssessment |-> risk,
          sessionRequirements |-> session]

\* MakeFinalDecision whose CHALLENGE case keeps a monitoringLevel of
\* STRICT instead of overwriting it with ENHANCED
MakeFinalDecision_KeepsStrict(role, context, risk, session, dynamic) ==
    IF ~role.allowed \/ ~context.allowed \/ ~dynamic.allowed
    THEN [allowed |-> FALSE,
          reason |-> Join(FailedReasons(<<role, context, dynamic>>), "; "),
          riskAssessment |-> risk,
          sessionRequirements |-> session]
    ELSE IF risk.recommendation = "DENY"
    THEN [allowed |-> FALSE,
          reason |-> <<"High risk operation denied (score: ",
                       ToString(risk.score), ")">>,
          riskAssessment |-> risk,
          sessionRequirements |-> session]
    ELSE IF risk.recommendation = "CHALLENGE"
    THEN [allowed |-> TRUE,
          reason |-> <<"Access granted with additional security requirements">>,
          riskAssessment |-> risk,
          sessionRequirements |->
              With(With(With(session, "requireMFA", TRUE),
                        "requireReauth", TRUE),
                   "monitoringLevel",
                   IF session.monitoringLevel = "STRICT" THEN "STRICT"
                   ELSE "ENHANCED")]
    ELSE [allowed |-> TRUE,
          reason |-> <<"Authorization granted">>,
          riskAssessment |-> risk,
          sessionRequirements |-> session]

\* part_005:374-434
MakeFinalDecision(role, context, risk, session, dynamic) ==
    IF ~role.allowed \/ ~context.allowed \/ ~dynamic.allowed
    THEN [allowed |-> FALSE,
          reason |-> Join(FailedReasons(<<role, context, dynamic>>), "; "),
          riskAssessment |-> risk,
          sessionRequirements |-> session]
    ELSE IF risk.recommendation = "DENY"
    THEN [allowed |-> FALSE,
          reason |-> <<"High risk operation denied (score: ",
                       ToString(risk.score), ")">>,
          riskAssessment |-> risk,
          sessionRequirements |-> session]
    ELSE IF risk.recommendation = "CHALLENGE"
    THEN [allowed |-> TRUE,
          reason |-> <<"Access granted with additional security requirements">>,
          riskAssessment |-> risk,
          sessionRequirements |->
              With(With(With(session, "requireMFA", TRUE),
                        "requireReauth", TRUE),
                   "monitoringLevel", "ENHANCED")]
    ELSE [allowed |-> TRUE,
          reason |-> <<"Authorization granted">>,
          riskAssessment |-> risk,
          sessionRequirements |-> session]

\* the default decision failing open
SafeDefaultDecision_Open ==
    [allowed |-> TRUE,
     reason |-> <<"Internal authorization error">>,
     riskAssessment |-> [score |-> 100,
                         factors |-> <<"system_error">>,
                         recommendation |-> "DENY"]]

\* part_005:114-122
SafeDefaultDecision ==
    [allowed |-> FALSE,
     reason |-> <<"Internal authorization error">>,
     riskAssessment |-> [score |-> 100,
                         factors |-> <<"system_error">>,
                         recommendation |-> "DENY"]]

-----------------------------------------------------------------------------
(* Inputs                                                                  *)

UserIds == {"u1"}

\* context.user undefined
NoUser == [undefined |-> TRUE]

\* the User rows a context can carry (src/unnamed/part_000:87-183); the
\* entity has no metadata column, so user.metadata?.trustedDevices || []
\* is the empty array
Users ==
    [id : UserIds,
     role : {UserRole.CLIENT, UserRole.ACCOUNT_MANAGER,
             UserRole.COMPLIANCE_OFFICER, UserRole.BANK_ADMIN,
             UserRole.AUDITOR},
     kycStatus : {KycStatus.APPROVED, KycStatus.NOT_STARTED},
     trustedDevices : {<<>>}]

Resources == {"banking/transactions", "toString", Undefined}

Actions == {"read", "transfer", Undefined}

Amounts == {NoAmount, 20000, 150000}

IpAddresses == {Undefined, "192.168.1.100"}

DeviceFingerprints == {Undefined, "device-1"}

Hours == {2, 12, 22}

Contexts ==
    [user : Users \cup {NoUser},
     resource : Resources,
     action : Actions,
     metadata : [amount : Amounts,
                 ipAddress : IpAddresses,
                 deviceFingerprint : DeviceFingerprints]]

\* the audit table as the two count queries see it: per user, the number
\* of LOGIN_FAILED records younger than 30 minutes and the number of
\* records of any kind younger than one hour
InitialStores ==
    {[loginFailed30 |-> 0, lastHour |-> 0],
     [loginFailed30 |-> 5, lastHour |-> 50],
     [loginFailed30 |-> 6, lastHour |-> 6],
     [loginFailed30 |-> 0, lastHour |-> 51]}

-----------------------------------------------------------------------------
(* Audit Sink                                                              *)

\* GetRecentUserActions counting only the LOGIN_FAILED records, which the
\* engine never appends
GetRecentUserActions_FailedLoginsOnly(store, userId) ==
    store[userId].loginFailed30

\* part_005:439-452  count({userId, createdAt: MoreThan(now - 1 hour)})
GetRecentUserActions(store, userId) == store[userId].lastHour

\* part_005:458-464  count({userId, action: LOGIN_FAILED,
\*                          createdAt: MoreThan(now - 30 minutes)})
CountFailedAttempts(store, userId) == store[userId].loginFailed30

\* SaveRecord adding the record to the rows of every subject
SaveRecord_AllSubjects(store, userId) ==
    [u \in DOMAIN store |-> [store[u] EXCEPT !.lastHour = @ + 1]]

\* a successful auditRepository.save of one engine record (part_005:492):
\* the record is new, and its action is never LOGIN_FAILED
SaveRecord(store, userId) ==
    [store EXCEPT ![userId].lastHour = @ + 1]

\* logAuthEvent without its own try/catch: a rejected save is rethrown
LogAuthEventThrows_Rethrow(saveOk) == ~saveOk

\* part_005:485-507: whether logAuthEvent throws, given whether save resolved
LogAuthEventThrows(saveOk) == FALSE

\* part_005:492-503: the entity handed to auditRepository.save
AuditEntity(context, action, details, metadata) ==
    [userId |-> context.user.id,
     action |-> action,
     resourceType |-> "authorization",
     resourceId |-> context.resource,
     details |-> details,
     metadata |-> With(Spread(context.metadata, metadata),
                       "orchestrationStep", action)]

\* the empty record: no extra metadata passed to logAuthEvent
NoMetadata == [f \in {} |-> TRUE]

\* the final event kind not depending on the decision
FinalEvent_AlwaysGranted(finalDecision) == "ACCESS_GRANTED"

\* part_005:101: the event kind of the final logAuthEvent
FinalEvent(finalDecision) ==
    IF finalDecision.allowed THEN "ACCESS_GRANTED" ELSE "ACCESS_DENIED"

\* the catch block logging the error as an ordinary denial
CatchBlock_LogsDenial(message) ==
    [action |-> "ACCESS_DENIED",
     details |-> message,
     metadata |-> NoMetadata,
     returns |-> SafeDefaultDecision]

\* part_005:107-122: the catch block up to its logAuthEvent call
CatchBlock(message) ==
    [action |-> "ORCHESTRATION_ERROR",
     details |-> message,
     metadata |-> NoMetadata,
     returns |-> SafeDefaultDecision]

-----------------------------------------------------------------------------
(* orchestrateAuthorization                                                *)

locals == <<roleCheck, contextCheck, recentActions, riskAssessment,
            sessionCheck, failedAttempts, dynamicCheck>>

\* the state of the guard in front of the engine
guardVars == <<request, activation>>

\* the state of AuthService and its tables
authVars == <<users, now, logins, auditLog, authLog>>

\* the state of BankingService and its tables
bankVars == <<accounts, transfers, bankLog>>

\* AuthService is not modelled
AuthIdle ==
    /\ users = Null
    /\ now = 0
    /\ logins = Null
    /\ auditLog = <<>>
    /\ authLog = Null

\* BankingService is not modelled
BankIdle ==
    /\ accounts = Null
    /\ transfers = Null
    /\ bankLog = Null

\* the state of the concurrent calls and of the other services
restVars == <<procs, initialStore, authVars, bankVars>>

\* no concurrent calls and no other service are modelled
RestIdle ==
    /\ procs = Null
    /\ initialStore = Null
    /\ AuthIdle
    /\ BankIdle

Init ==
    /\ pc = "idle"
    /\ ctx = Null
    /\ clock = Null
    /\ roleCheck = Null
    /\ contextCheck = Null
    /\ recentActions = Null
    /\ riskAssessment = Null
    /\ sessionCheck = Null
    /\ failedAttempts = Null
    /\ dynamicCheck = Null
    /\ pending = Null
    /\ error = Null
    /\ saveCalls = <<>>
    /\ result = Null
    /\ outcome = "none"
    /\ auditStore \in [UserIds -> InitialStores]
    /\ calls = 0
    /\ request = Null
    /\ activation = Null
    /\ RestIdle

\* part_005:56-78: the call starts, logs context.user.id (outside the try
\* block), runs the Role Check and, when it allowed, the Contextual Check
Begin(c, hour, isHoliday) ==
    /\ pc = "idle"
    /\ calls < MaxCalls
    /\ calls' = calls + 1
    /\ ctx' = c
    /\ clock' = [hour |-> hour, isHoliday |-> isHoliday]
    /\ UNCHANGED <<recentActions, riskAssessment, sessionCheck,
                   failedAttempts, dynamicCheck, saveCalls, result,
                   auditStore, guardVars, restVars>>
    /\ IF c.user = NoUser
       THEN \* TypeError at part_005:58, before the try block
            /\ outcome' = "thrown"
            /\ pc' = "done"
            /\ UNCHANGED <<roleCheck, contextCheck, pending, error>>
       ELSE IF ResourceLookupThrows(c.user.role, c.resource)
       THEN \* TypeError at part_005:167, caught at part_005:107
            /\ error' = [message |->
                          <<"resourcePermissions.includes is not a function">>]
            /\ pending' = CatchBlock(error'.message)
            /\ pc' = "log"
            /\ UNCHANGED <<roleCheck, contextCheck, outcome>>
       ELSE LET role == CheckRoleBasedAccess(c)
                context == CheckContextualAccess(c, hour)
            IN  /\ roleCheck' = role
                /\ UNCHANGED <<error, outcome>>
                /\ IF ~role.allowed
                   THEN /\ pending' = [action |-> "ROLE_CHECK_FAILED",
                                       details |-> role.reason,
                                       metadata |-> NoMetadata,
                                       returns |-> role]
                        /\ pc' = "log"
                        /\ UNCHANGED contextCheck
                   ELSE /\ contextCheck' = context
                        /\ IF ~context.allowed
                           THEN /\ pending' = [action |-> "CONTEXT_CHECK_FAILED",
                                               details |-> context.reason,
                                               metadata |-> NoMetadata,
                                               returns |-> context]
                                /\ pc' = "log"
                           ELSE /\ pc' = "risk"
                                /\ UNCHANGED pending

\* part_005:81-84: the Risk Scorer, whose count query resolves or rejects,
\* and the Session Policy Deriver
RiskStage(countOk) ==
    /\ pc = "risk"
    /\ UNCHANGED <<ctx, clock, roleCheck, contextCheck, failedAttempts,
                   dynamicCheck, saveCalls, result, outcome, auditStore, calls,
                   guardVars, restVars>>
    /\ IF countOk
       THEN LET n == GetRecentUserActions(auditStore, ctx.user.id)
            IN  /\ recentActions' = [ok |-> TRUE, value |-> n]
                /\ riskAssessment' = AssessRisk(ctx, n, clock.hour)
                /\ sessionCheck' = CheckSessionConstraints(ctx)
                /\ pc' = "dynamic"
                /\ UNCHANGED <<pending, error>>
       ELSE /\ recentActions' = [ok |-> FALSE]
            /\ error' = [message |-> <<"count query failed">>]
            /\ pending' = CatchBlock(error'.message)
            /\ pc' = "log"
            /\ UNCHANGED <<riskAssessment, sessionCheck>>

\* part_005:87-104: the Dynamic Rule Engine, whose count query resolves or
\* rejects, the Decision Merger and the arguments of the final logAuthEvent
DynamicStage(countOk) ==
    /\ pc = "dynamic"
    /\ UNCHANGED <<ctx, clock, roleCheck, contextCheck, recentActions,
                   riskAssessment, sessionCheck, saveCalls, result, outcome,
                   auditStore, calls, guardVars, restVars>>
    /\ IF countOk
       THEN LET n == CountFailedAttempts(auditStore, ctx.user.id)
                dynamic == ApplyDynamicSecurityRules(ctx, n, clock.isHoliday)
                finalDecision == MakeFinalDecision(roleCheck, contextCheck,
                                                   riskAssessment, sessionCheck,
                                                   dynamic)
            IN  /\ failedAttempts' = [ok |-> TRUE, value |-> n]
                /\ dynamicCheck' = dynamic
                /\ pending' = [action |-> FinalEvent(finalDecision),
                               details |-> finalDecision.reason,
                               metadata |-> [decision |-> finalDecision],
                               returns |-> finalDecision]
                /\ pc' = "log"
                /\ UNCHANGED error
       ELSE /\ failedAttempts' = [ok |-> FALSE]
            /\ error' = [message |-> <<"count query failed">>]
            /\ pending' = CatchBlock(error'.message)
            /\ pc' = "log"
            /\ UNCHANGED dynamicCheck

\* LogStage returning a Role Check denial without handing a record to
\* auditRepository.save
LogStage_SilentRoleDenial(saveOk) ==
    /\ pc = "log"
    /\ UNCHANGED <<ctx, clock, locals, calls, guardVars, restVars>>
    /\ IF pending.action = "ROLE_CHECK_FAILED"
       THEN /\ result' = pending.returns
            /\ outcome' = "returned"
            /\ pc' = "done"
            /\ UNCHANGED <<pending, error, saveCalls, auditStore>>
       ELSE /\ saveCalls' = Append(saveCalls,
                                   [entity |-> AuditEntity(ctx, pending.action,
                                                           pending.details,
                                                           pending.metadata),
                                    ok |-> saveOk])
            /\ auditStore' = IF saveOk THEN SaveRecord(auditStore, ctx.user.id)
                             ELSE auditStore
            /\ result' = pending.returns
            /\ outcome' = "returned"
            /\ pc' = "done"
            /\ UNCHANGED <<pending, error>>

\* part_005:485-507 and the return after it: logAuthEvent hands the record
\* to auditRepository.save, which resolves or rejects
LogStage(saveOk) ==
    /\ pc = "log"
    /\ UNCHANGED <<ctx, clock, locals, calls, guardVars, restVars>>
    /\ saveCalls' = Append(saveCalls,
                           [entity |-> AuditEntity(ctx, pending.action,
                                                   pending.details,
                                                   pending.metadata),
                            ok |-> saveOk])
    /\ auditStore' = IF saveOk THEN SaveRecord(auditStore, ctx.user.id)
                     ELSE auditStore
    /\ IF ~LogAuthEventThrows(saveOk)
       THEN /\ result' = pending.returns
            /\ outcome' = "returned"
            /\ pc' = "done"
            /\ UNCHANGED <<pending, error>>
       ELSE IF pending.action # "ORCHESTRATION_ERROR"
       THEN \* thrown inside the try block: caught at part_005:107
            /\ error' = [message |-> <<"save failed">>]
            /\ pending' = CatchBlock(error'.message)
            /\ pc' = "log"
            /\ UNCHANGED <<result, outcome>>
       ELSE \* thrown inside the catch block: the call rejects
            /\ outcome' = "thrown"
            /\ pc' = "done"
            /\ UNCHANGED <<result, pending, error>>

\* the caller has the decision; the engine is ready for the next call
Return ==
    /\ pc = "done"
    /\ pc' = "idle"
    /\ ctx' = Null
    /\ clock' = Null
    /\ roleCheck' = Null
    /\ contextCheck' = Null
    /\ recentActions' = Null
    /\ riskAssessment' = Null
    /\ sessionCheck' = Null
    /\ failedAttempts' = Null
    /\ dynamicCheck' = Null
    /\ pending' = Null
    /\ error' = Null
    /\ saveCalls' = <<>>
    /\ result' = Null
    /\ outcome' = "none"
    /\ UNCHANGED <<auditStore, calls, guardVars, restVars>>

\* more than an hour passes between two calls: every record leaves both
\* windows of the count queries (part_005:443-449, 462)
Expire ==
    /\ pc = "idle"
    /\ \E u \in UserIds : auditStore[u].lastHour > 0
    /\ auditStore' = [u \in UserIds |-> [loginFailed30 |-> 0, lastHour |-> 0]]
    /\ UNCHANGED <<pc, ctx, clock, locals, pending, error, saveCalls, result,
                   outcome, calls, guardVars, restVars>>

Next ==
    \/ \E c \in Contexts, hour \in Hours, isHoliday \in BOOLEAN :
          Begin(c, hour, isHoliday)
    \/ \E countOk \in BOOLEAN : RiskStage(countOk)
    \/ \E countOk \in BOOLEAN : DynamicStage(countOk)
    \/ \E saveOk \in BOOLEAN : LogStage(saveOk)
    \/ Return
    \/ Expire

Spec == Init /\ [][Next]_vars

-----------------------------------------------------------------------------
(* Properties                                                              *)

\* the subject, the resource or the action of a context is absent
Malformed(c) ==
    \/ c.user = NoUser
    \/ c.resource = Undefined
    \/ c.action = Undefined

\* the call has resolved with a decision
Returned == pc = "done" /\ outcome = "returned"

\* a stage inside the try block threw and the error was caught
StageThrew == error # Null

\* the last-hour count query or the LOGIN_FAILED count query rejected
CountRaised ==
    \/ recentActions = [ok |-> FALSE]
    \/ failedAttempts = [ok |-> FALSE]

\* some auditRepository.save of this call rejected
AppendRaised == \E i \in DOMAIN saveCalls : ~saveCalls[i].ok

\* the actions of the save calls of this call, in order
SavedActions == [i \in DOMAIN saveCalls |-> saveCalls[i].entity.action]

\* C1: when a stage inside orchestrateAuthorization throws, the call
\* returns without throwing, the decision is exactly allowed=false with
\* riskAssessment {score: 100, factors: [system_error], recommendation:
\* DENY}, and one ORCHESTRATION_ERROR audit append is attempted.
C1_StageErrorFailsClosed ==
    (pc = "done" /\ StageThrew) =>
        /\ outcome = "returned"
        /\ result = [allowed |-> FALSE,
                     reason |-> <<"Internal authorization error">>,
                     riskAssessment |-> [score |-> 100,
                                         factors |-> <<"system_error">>,
                                         recommendation |-> "DENY"]]
        /\ SavedActions = <<"ORCHESTRATION_ERROR">>

\* a call whose LOGIN_FAILED count query rejected, after the Role Check,
\* the Contextual Check and the Risk Scorer had passed, has returned
C1_Witness ==
    /\ pc = "done"
    /\ ~Malformed(ctx)
    /\ StageThrew
    /\ failedAttempts = [ok |-> FALSE]
    /\ riskAssessment # Null

\* no stage of the pipeline has run
NoStageRan ==
    /\ roleCheck = Null
    /\ contextCheck = Null
    /\ riskAssessment = Null
    /\ sessionCheck = Null
    /\ dynamicCheck = Null

\* C2: for every context in which the subject, the resource or the action
\* is absent, and for every role, orchestrateAuthorization does not throw,
\* executes no stage and returns allowed=false, with one audit event
\* emitted for the malformed context.
C2_MalformedContextDenied ==
    (pc = "done" /\ Malformed(ctx)) =>
        /\ outcome = "returned"
        /\ ~result.allowed
        /\ NoStageRan
        /\ Len(saveCalls) = 1

\* the Audit Sink raised on one of its operations during this call
SinkRaised == CountRaised \/ AppendRaised

\* C3 as stated: if the Audit Sink raises on any of its operations during
\* an evaluation, an append as well as a windowed count, the call returns
\* without propagating the error and the decision has allowed=false
\* (stated for the contexts that carry subject, resource and action).
C3_AnySinkErrorDenies ==
    (pc = "done" /\ ~Malformed(ctx) /\ SinkRaised) =>
        /\ outcome = "returned"
        /\ ~result.allowed

\* C3 amended: if the Audit Sink raises during an evaluation, the call
\* returns without propagating the error; if the operation that raised is
\* a windowed count, the decision has allowed=false.
C3_SinkErrorContained ==
    (pc = "done" /\ SinkRaised) =>
        /\ outcome = "returned"
        /\ (CountRaised => ~result.allowed)

\* a call in which the last-hour count and the append of the
\* ORCHESTRATION_ERROR event both raised has returned
C3_Witness ==
    /\ pc = "done"
    /\ ~Malformed(ctx)
    /\ recentActions = [ok |-> FALSE]
    /\ AppendRaised

\* part_005:56-124: the decision of a call as a function of its context,
\* the clock and what the two count queries answered (recent, failed are
\* Null when the call did not issue the query)
Verdict(c, clk, recent, failed) ==
    IF ResourceLookupThrows(c.user.role, c.resource) THEN SafeDefaultDecision
    ELSE LET role == CheckRoleBasedAccess(c)
             context == CheckContextualAccess(c, clk.hour)
         IN  IF ~role.allowed THEN role
             ELSE IF ~context.allowed THEN context
             ELSE IF ~recent.ok THEN SafeDefaultDecision
             ELSE IF ~failed.ok THEN SafeDefaultDecision
             ELSE MakeFinalDecision(
                      role, context,
                      AssessRisk(c, recent.value, clk.hour),
                      CheckSessionConstraints(c),
                      ApplyDynamicSecurityRules(c, failed.value,
                                                clk.isHoliday))

\* C4: a failure of the audit append never changes the verdict: whether
\* its appends succeed or fail, a call returns the decision determined by
\* the context, the clock and the answers of the count queries, and the
\* append error is never propagated to the caller.
C4_AppendFailureKeepsVerdict ==
    (pc = "done" /\ ctx.user # NoUser) =>
        /\ outcome = "returned"
        /\ result = Verdict(ctx, clock, recentActions, failedAttempts)

\* a call whose ACCESS_GRANTED append raised has returned allowed=true
C4_Witness ==
    /\ Returned
    /\ ~Malformed(ctx)
    /\ AppendRaised
    /\ SavedActions = <<"ACCESS_GRANTED">>
    /\ result.allowed

\* the Role Check, the Contextual Check and the Dynamic Rule Engine ran and
\* all reported allowed=true
AllThreePassed ==
    /\ roleCheck # Null /\ roleCheck.allowed
    /\ contextCheck # Null /\ contextCheck.allowed
    /\ dynamicCheck # Null /\ dynamicCheck.allowed

\* C5: a decision with allowed=true comes from a call in which the Role
\* Check, the Contextual Check and the Dynamic Rule Engine all reported
\* allowed=true and the recommendation is not DENY (score < 70); when all
\* three pass and the recommendation is DENY, the decision is
\* allowed=false with a reason citing the numeric score.
C5_GrantNeedsAllChecks ==
    Returned =>
        /\ result.allowed =>
              /\ AllThreePassed
              /\ riskAssessment.recommendation # "DENY"
              /\ riskAssessment.score < 70
        /\ (AllThreePassed /\ riskAssessment.recommendation = "DENY") =>
              /\ ~result.allowed
              /\ result.reason = <<"High risk operation denied (score: ",
                                   ToString(riskAssessment.score), ")">>

\* a call in which all three checks passed and the Risk Scorer recommended
\* DENY has returned
C5_Witness ==
    /\ Returned
    /\ ~Malformed(ctx)
    /\ AllThreePassed
    /\ riskAssessment.recommendation = "DENY"

\* C6 as stated: the three checks all run for every request, none
\* short-circuiting the others; when one of them reports allowed=false
\* the decision is allowed=false, its reason is the reasons of all
\* failing checks joined by "; ", and the risk assessment and the session
\* requirements are attached (stated for the contexts that carry subject,
\* resource and action).
C6_NoShortCircuit ==
    (Returned /\ ~Malformed(ctx) /\ ~StageThrew) =>
        /\ roleCheck # Null /\ contextCheck # Null /\ dynamicCheck # Null
        /\ (~roleCheck.allowed \/ ~contextCheck.allowed
              \/ ~dynamicCheck.allowed) =>
              /\ ~result.allowed
              /\ result.reason =
                    Join(FailedReasons(<<roleCheck, contextCheck,
                                         dynamicCheck>>), "; ")
              /\ "riskAssessment" \in DOMAIN result
              /\ result.riskAssessment = riskAssessment
              /\ "sessionRequirements" \in DOMAIN result
              /\ result.sessionRequirements = sessionCheck

\* C6 amended: the Role Check runs for every request, the Contextual Check
\* only when the Role Check allowed, the Dynamic Rule Engine only when
\* both allowed.  A denying Role Check or Contextual Check is returned as
\* the decision, with its own reason and nothing attached; when the
\* Dynamic Rule Engine denies, the decision is allowed=false with the
\* rule's reason and with the risk assessment and the session
\* requirements attached.
C6_ChecksShortCircuit ==
    (Returned /\ ~StageThrew) =>
        /\ roleCheck # Null
        /\ (contextCheck # Null) <=> roleCheck.allowed
        /\ (dynamicCheck # Null) <=>
              (roleCheck.allowed /\ contextCheck.allowed)
        /\ ~roleCheck.allowed =>
              result = [allowed |-> FALSE, reason |-> roleCheck.reason]
        /\ (contextCheck # Null /\ ~contextCheck.allowed) =>
              /\ ~result.allowed
              /\ result.reason = contextCheck.reason
              /\ DOMAIN result \cap {"riskAssessment", "sessionRequirements"}
                    = {}
        /\ (dynamicCheck # Null /\ ~dynamicCheck.allowed) =>
              /\ ~result.allowed
              /\ result.reason = dynamicCheck.reason
              /\ "riskAssessment" \in DOMAIN result
              /\ result.riskAssessment = riskAssessment
              /\ "sessionRequirements" \in DOMAIN result
              /\ result.sessionRequirements = sessionCheck

\* a call in which only the Dynamic Rule Engine denied has returned
C6_Witness ==
    /\ Returned
    /\ ~Malformed(ctx)
    /\ dynamicCheck # Null
    /\ ~dynamicCheck.allowed
    /\ riskAssessment # Null

\* C7: a call that ends in a policy verdict has attempted an audit append
\* whose event kind matches the outcome: ROLE_CHECK_FAILED when the Role
\* Check denied, CONTEXT_CHECK_FAILED when the Contextual Check denied,
\* ACCESS_DENIED when a dynamic rule or a risk DENY denied, ACCESS_GRANTED
\* if and only if the decision has allowed=true; the final event carries
\* the full decision as metadata.
C7_AuditEventMatchesOutcome ==
    Returned =>
        /\ Len(saveCalls) >= 1
        /\ LET event == saveCalls[Len(saveCalls)].entity
           IN  /\ (event.action = "ACCESS_GRANTED") <=> result.allowed
               /\ ~StageThrew =>
                     /\ ~roleCheck.allowed =>
                           event.action = "ROLE_CHECK_FAILED"
                     /\ (contextCheck # Null /\ ~contextCheck.allowed) =>
                           event.action = "CONTEXT_CHECK_FAILED"
                     /\ (dynamicCheck # Null /\ ~result.allowed) =>
                           event.action = "ACCESS_DENIED"
                     /\ event.action \in {"ACCESS_GRANTED", "ACCESS_DENIED"} =>
                           /\ "decision" \in DOMAIN event.metadata
                           /\ event.metadata.decision = result

\* a call that was denied by the risk recommendation alone has returned
\* after an ACCESS_DENIED append
C7_Witness ==
    /\ Returned
    /\ ~Malformed(ctx)
    /\ AllThreePassed
    /\ ~result.allowed
    /\ SavedActions = <<"ACCESS_DENIED">>

\* Scenario B: a client with approved KYC asks to transfer 150000 on
\* banking/transactions within business hours, with no failed login, no
\* other risk factor and a working Audit Sink
ScenarioB ==
    /\ ctx.user # NoUser
    /\ ctx.user.role = UserRole.CLIENT
    /\ ctx.user.kycStatus = KycStatus.APPROVED
    /\ ctx.resource = "banking/transactions"
    /\ ctx.action = "transfer"
    /\ ctx.metadata.amount = 150000
    /\ ctx.metadata.ipAddress = Undefined
    /\ ctx.metadata.deviceFingerprint = Undefined
    /\ clock.hour = 12
    /\ ~clock.isHoliday
    /\ auditStore[ctx.user.id].loginFailed30 = 0
    /\ auditStore[ctx.user.id].lastHour <= 50
    /\ ~SinkRaised

\* C8: Scenario B yields score 45, recommendation MONITOR, allowed=true
\* and the session requirements of the Session Policy Deriver unmodified,
\* with requireReauth=true and monitoringLevel=STRICT.
C8_ScenarioBGranted ==
    (pc = "done" /\ ScenarioB) =>
        /\ outcome = "returned"
        /\ riskAssessment # Null
        /\ riskAssessment.score = 45
        /\ riskAssessment.recommendation = "MONITOR"
        /\ result.allowed
        /\ result.sessionRequirements = sessionCheck
        /\ Truthy(result.sessionRequirements, "requireReauth")
        /\ result.sessionRequirements.monitoringLevel = "STRICT"

\* C9: a request whose action is transfer, whose amount is greater than
\* 10000 and whose subject's KYC status is not APPROVED is decided
\* allowed=false, whatever the role, the other signals and the score.
C9_UnverifiedLargeTransferDenied ==
    (/\ pc = "done"
     /\ ctx.user # NoUser
     /\ ctx.action = "transfer"
     /\ ctx.metadata.amount > 10000
     /\ ctx.user.kycStatus # KycStatus.APPROVED) =>
        /\ outcome = "returned"
        /\ ~result.allowed

\* such a request, whose score alone would pass, has been denied by the
\* KYC rule of the Dynamic Rule Engine
C9_Witness ==
    /\ Returned
    /\ ~Malformed(ctx)
    /\ ctx.action = "transfer"
    /\ ctx.metadata.amount > 10000
    /\ ctx.user.kycStatus # KycStatus.APPROVED
    /\ dynamicCheck # Null
    /\ dynamicCheck.reason = <<"Large transfers require KYC approval">>
    /\ riskAssessment.recommendation # "DENY"

\* the audit store holds more than 5 LOGIN_FAILED records of the subject
\* of the call within the last 30 minutes
ManyFailedLogins ==
    /\ ctx.user # NoUser
    /\ auditStore[ctx.user.id].loginFailed30 > 5

\* the denial of the suspicious-pattern rule
SuspiciousPatternDenial ==
    [allowed |-> FALSE,
     reason |-> <<"Suspicious patterns detected: ",
                  "multiple_failed_login_attempts">>]

\* C10 as stated: with more than 5 LOGIN_FAILED records of a subject in
\* the last 30 minutes, any request of that subject is denied by the
\* Dynamic Rule Engine with a reason naming the suspicious pattern
\* (stated for the requests that carry resource and action and in which
\* no stage throws).
C10_DeniedByDynamicRules ==
    (pc = "done" /\ ManyFailedLogins /\ ~Malformed(ctx) /\ ~StageThrew) =>
        /\ outcome = "returned"
        /\ dynamicCheck = SuspiciousPatternDenial
        /\ ~result.allowed
        /\ result.reason = SuspiciousPatternDenial.reason

\* C10 amended: with more than 5 LOGIN_FAILED records of a subject in the
\* last 30 minutes, any request of that subject is denied; when the
\* request passes the Role Check and the Contextual Check and both count
\* queries answer, the denial is the Dynamic Rule Engine's, with a reason
\* naming the suspicious pattern, even when the risk score would pass.
C10_SuspiciousPatternDenies ==
    (pc = "done" /\ ManyFailedLogins) =>
        /\ outcome = "returned"
        /\ ~result.allowed
        /\ (/\ roleCheck # Null /\ roleCheck.allowed
            /\ contextCheck # Null /\ contextCheck.allowed
            /\ ~StageThrew) =>
              /\ dynamicCheck = SuspiciousPatternDenial
              /\ result.reason = SuspiciousPatternDenial.reason

\* a request whose score recommends ALLOW has been denied by the
\* suspicious-pattern rule
C10_Witness ==
    /\ Returned
    /\ ~Malformed(ctx)
    /\ ManyFailedLogins
    /\ dynamicCheck = SuspiciousPatternDenial
    /\ riskAssessment.recommendation = "ALLOW"
    /\ ~result.allowed

\* C25: every call of orchestrateAuthorization that returns has handed
\* exactly one record to auditRepository.save, never none and never two,
\* on every path: Role Check failure, Contextual Check failure, final
\* grant or denial, and the error path.
C25_ExactlyOneAppend ==
    Returned => Len(saveCalls) = 1

\* a call whose count query failed has returned after the one append of
\* its error path, and that append failed as well
C25_Witness ==
    /\ Returned
    /\ ~Malformed(ctx)
    /\ CountRaised
    /\ SavedActions = <<"ORCHESTRATION_ERROR">>
    /\ AppendRaised

\* The call under the scheduling the runtime gives it: a continuation runs
\* once the promise it awaits has settled, so the steps that wait for
\* nothing (the return to the caller) are taken when enabled.  The three
\* awaits on the audit store (part_005:81, 89, 492) carry no fairness: the
\* store may never settle them, and the code sets no timer beside them.
LiveSpec == Init /\ [][Next]_vars /\ WF_vars(Return)

\* the call is suspended on the audit store: on one of the two count
\* queries or on the save of its audit record
AwaitsStore == pc \in {"risk", "dynamic", "log"}

\* C22: a call suspended on the audit store eventually ends, also when
\* the store never answers (the claim: a request-scoped timeout bounds the
\* wait and the call returns the fail-closed decision).
C22_SuspendedCallReturns ==
    AwaitsStore ~> (pc = "done")

-----------------------------------------------------------------------------
(* The stages of the pipeline, each applied on its own                     *)

\* a User object as the stages read it: id, role, kycStatus and
\* metadata?.trustedDevices
StageUser(role, kycStatus, trustedDevices) ==
    [id |-> "u1", role |-> role, kycStatus |-> kycStatus,
     trustedDevices |-> trustedDevices]

\* context.metadata carrying no amount, no address and no fingerprint
NoRequestMetadata ==
    [amount |-> NoAmount, ipAddress |-> Undefined,
     deviceFingerprint |-> Undefined]

\* an AuthContext, field by field
StageContext(role, kyc, devices, resource, action, amount, ip, device) ==
    [user |-> StageUser(role, kyc, devices),
     resource |-> resource,
     action |-> action,
     metadata |-> [amount |-> amount, ipAddress |-> ip,
                   deviceFingerprint |-> device]]

AllRoles ==
    {UserRole.CLIENT, UserRole.ACCOUNT_MANAGER, UserRole.COMPLIANCE_OFFICER,
     UserRole.BANK_ADMIN, UserRole.AUDITOR}

\* the resources of the matrix, two resources outside it, the wildcard
\* itself, a key of Object.prototype and an absent resource
RoleCheckResources ==
    {"banking/accounts", "banking/transactions", "profile", "dashboard",
     "customer", "reports", "audit", "compliance", "orchestration", "demo",
     "*", "toString", Undefined}

\* the actions of the matrix, two actions outside it, the wildcard itself
\* and an absent action
RoleCheckActions ==
    {"read", "create", "update", "approve", "suspend", "investigate", "flag",
     "export", "transfer", "status", "*", Undefined}

RoleCheckInputs ==
    {StageContext(role, KycStatus.APPROVED, <<>>, resource, action,
                  NoAmount, Undefined, Undefined) :
        role \in AllRoles, resource \in RoleCheckResources,
        action \in RoleCheckActions}

\* every hour new Date().getHours() can give
AllHours == 0..23

ContextCheckInputs ==
    {StageContext(role, KycStatus.APPROVED, trustedDevices,
                  "banking/accounts", "read", NoAmount, ipAddress,
                  deviceFingerprint) :
        role \in AllRoles,
        trustedDevices \in {<<>>, <<"device-1">>, <<"device-1", "device-2">>},
        ipAddress \in {Undefined, "192.168.1.100", "10.0.0.50", "203.0.113.7"},
        deviceFingerprint \in {Undefined, "device-1", "device-2"}}

\* the actions the Risk Scorer, the Session Policy Deriver and the Dynamic
\* Rule Engine tell apart, and two they do not
StageActions == {"read", "transfer", "withdraw", "delete", "admin", Undefined}

RiskInputs ==
    {StageContext(UserRole.CLIENT, kycStatus, <<>>, "banking/transactions",
                  action, amount, ipAddress, Undefined) :
        kycStatus \in {KycStatus.APPROVED, KycStatus.NOT_STARTED,
                       KycStatus.REJECTED},
        action \in StageActions,
        amount \in {NoAmount, 100000, 100001},
        ipAddress \in {Undefined, "192.168.1.100", "10.0.0.50"}}

RiskHours == {0, 5, 6, 21, 22, 23}

SessionInputs ==
    {StageContext(role, KycStatus.APPROVED, <<>>, "banking/transactions",
                  action, amount, Undefined, Undefined) :
        role \in AllRoles,
        action \in StageActions,
        amount \in {NoAmount, 50000, 50001, 150000}}

DynamicRuleInputs ==
    {StageContext(role, kycStatus, <<>>, "banking/transactions", action,
                  amount, Undefined, Undefined) :
        role \in AllRoles,
        kycStatus \in {KycStatus.APPROVED, KycStatus.IN_PROGRESS},
        action \in {"read", "transfer", "withdraw"},
        amount \in {NoAmount, 10000, 10001}}

\* the stage under test: pc names the private method about to be called
Stages ==
    {"checkRoleBasedAccess", "checkContextualAccess", "assessRisk",
     "checkSessionConstraints", "applyDynamicSecurityRules"}

StageInputs(stage) ==
    CASE stage = "checkRoleBasedAccess" -> RoleCheckInputs
      [] stage = "checkContextualAccess" -> ContextCheckInputs
      [] stage = "assessRisk" -> RiskInputs
      [] stage = "checkSessionConstraints" -> SessionInputs
      [] stage = "applyDynamicSecurityRules" -> DynamicRuleInputs

\* the hours and holiday answers the stage under test can see
StageClocks(stage) ==
    CASE stage = "checkContextualAccess" ->
            [hour : AllHours, isHoliday : {FALSE}]
      [] stage = "assessRisk" -> [hour : RiskHours, isHoliday : {FALSE}]
      [] stage = "applyDynamicSecurityRules" ->
            [hour : {12}, isHoliday : BOOLEAN]
      [] OTHER -> [hour : {12}, isHoliday : {FALSE}]

\* the audit table the count query of the stage under test can see
StageStores(stage) ==
    CASE stage = "assessRisk" ->
            [loginFailed30 : {0}, lastHour : {0, 50, 51}]
      [] stage = "applyDynamicSecurityRules" ->
            [loginFailed30 : {0, 5, 6}, lastHour : {0}]
      [] OTHER -> [loginFailed30 : {0}, lastHour : {0}]

StageInit ==
    /\ pc \in Stages
    /\ ctx \in StageInputs(pc)
    /\ clock \in StageClocks(pc)
    /\ auditStore \in [UserIds -> StageStores(pc)]
    /\ roleCheck = Null
    /\ contextCheck = Null
    /\ recentActions = Null
    /\ riskAssessment = Null
    /\ sessionCheck = Null
    /\ failedAttempts = Null
    /\ dynamicCheck = Null
    /\ pending = Null
    /\ error = Null
    /\ saveCalls = <<>>
    /\ result = Null
    /\ outcome = "none"
    /\ calls = 0
    /\ request = Null
    /\ activation = Null
    /\ RestIdle

\* what a stage leaves alone
StageFrame ==
    UNCHANGED <<ctx, clock, pending, saveCalls, result, outcome, auditStore,
                calls, guardVars, restVars>>

\* part_005:129-175
CallCheckRoleBasedAccess ==
    /\ pc = "checkRoleBasedAccess"
    /\ pc' = "applied"
    /\ StageFrame
    /\ UNCHANGED <<contextCheck, recentActions, riskAssessment, sessionCheck,
                   failedAttempts, dynamicCheck>>
    /\ IF ResourceLookupThrows(ctx.user.role, ctx.resource)
       THEN /\ error' = [message |->
                          <<"resourcePermissions.includes is not a function">>]
            /\ UNCHANGED roleCheck
       ELSE /\ roleCheck' = CheckRoleBasedAccess(ctx)
            /\ UNCHANGED error

\* part_005:180-220
CallCheckContextualAccess ==
    /\ pc = "checkContextualAccess"
    /\ pc' = "applied"
    /\ StageFrame
    /\ contextCheck' = CheckContextualAccess(ctx, clock.hour)
    /\ UNCHANGED <<roleCheck, recentActions, riskAssessment, sessionCheck,
                   failedAttempts, dynamicCheck, error>>

\* part_005:225-284, the count query answering
CallAssessRisk ==
    /\ pc = "assessRisk"
    /\ pc' = "applied"
    /\ StageFrame
    /\ LET n == GetRecentUserActions(auditStore, ctx.user.id)
       IN  /\ recentActions' = [ok |-> TRUE, value |-> n]
           /\ riskAssessment' = AssessRisk(ctx, n, clock.hour)
    /\ UNCHANGED <<roleCheck, contextCheck, sessionCheck, failedAttempts,
                   dynamicCheck, error>>

\* part_005:289-321
CallCheckSessionConstraints ==
    /\ pc = "checkSessionConstraints"
    /\ pc' = "applied"
    /\ StageFrame
    /\ sessionCheck' = CheckSessionConstraints(ctx)
    /\ UNCHANGED <<roleCheck, contextCheck, recentActions, riskAssessment,
                   failedAttempts, dynamicCheck, error>>

\* part_005:326-369, the count query answering
CallApplyDynamicSecurityRules ==
    /\ pc = "applyDynamicSecurityRules"
    /\ pc' = "applied"
    /\ StageFrame
    /\ LET n == CountFailedAttempts(auditStore, ctx.user.id)
       IN  /\ failedAttempts' = [ok |-> TRUE, value |-> n]
           /\ dynamicCheck' = ApplyDynamicSecurityRules(ctx, n,
                                                        clock.isHoliday)
    /\ UNCHANGED <<roleCheck, contextCheck, recentActions, riskAssessment,
                   sessionCheck, error>>

StageNext ==
    \/ CallCheckRoleBasedAccess
    \/ CallCheckContextualAccess
    \/ CallAssessRisk
    \/ CallCheckSessionConstraints
    \/ CallApplyDynamicSecurityRules

StageSpec == StageInit /\ [][StageNext]_vars

-----------------------------------------------------------------------------
(* Properties of the stages                                                *)

\* the stage under test has been called
Applied == pc = "applied"

\* the action is listed, exactly or by wildcard, in the role's entry for
\* the resource: the exact entry when the role has one, else the role's
\* wildcard-resource entry
Listed(role, resource, action) ==
    LET entries == IF role \in DOMAIN permissions THEN permissions[role]
                   ELSE <<>>
        key == IF resource \in DOMAIN entries THEN resource ELSE "*"
    IN  /\ key \in DOMAIN entries
        /\ \E i \in DOMAIN entries[key] : entries[key][i] \in {action, "*"}

\* the reason of a denial of the Role Check
MissingGrant(c) ==
    <<"Role ", c.user.role, " lacks ", c.action, " access to ", c.resource>>

C13_AuditorReadsAuditAndReports ==
    (/\ Applied
     /\ ctx.user.role = UserRole.AUDITOR
     /\ ctx.resource \in {"audit", "reports"}
     /\ ctx.action = "read") =>
        /\ roleCheck # Null
        /\ roleCheck.allowed

\* the restrictions the Contextual Check can report
NightHoursRestriction ==
    <<"Banking operations restricted during night hours (6 AM - 10 PM)">>

UnrecognizedDeviceRestriction == <<"Access from unrecognized device">>

\* the role is neither administrative nor compliance-type
NonPrivileged(role) ==
    role \notin {UserRole.BANK_ADMIN, UserRole.COMPLIANCE_OFFICER}

\* the hour is outside [6, 22)
OutsideDayHours(hour) == hour < 6 \/ hour >= 22

\* C14 as stated: for every subject whose role is neither administrative
\* nor compliance-type, the Contextual Check reports the time-of-day
\* restriction exactly when the local hour h is outside [6, 22), that is
\* h < 6 or h >= 22; a request at hour 22 is restricted and a client
\* request at 2 AM is denied.
C14_NightHoursRestricted ==
    (Applied /\ contextCheck # Null /\ NonPrivileged(ctx.user.role)) =>
        /\ Includes(contextCheck.additionalChecks, NightHoursRestriction)
              <=> OutsideDayHours(clock.hour)
        /\ (ctx.user.role = UserRole.CLIENT /\ clock.hour = 2) =>
              ~contextCheck.allowed

\* C15: the Contextual Check adds the device restriction exactly when a
\* device fingerprint is present in the request and is not one of the
\* subject's trusted devices; a fingerprint that is one of them is not
\* restricted; allowed is true exactly when the restriction list is empty,
\* and the reason of a denial is the restrictions joined by "; ".
C15_DeviceRestriction ==
    (Applied /\ contextCheck # Null) =>
        LET fingerprint == ctx.metadata.deviceFingerprint
            trusted == {ctx.user.trustedDevices[i] :
                           i \in DOMAIN ctx.user.trustedDevices}
        IN  /\ Includes(contextCheck.additionalChecks,
                        UnrecognizedDeviceRestriction)
                  <=> (fingerprint # Undefined /\ fingerprint \notin trusted)
            /\ contextCheck.allowed <=> contextCheck.additionalChecks = <<>>
            /\ ~contextCheck.allowed =>
                  contextCheck.reason =
                      Join(contextCheck.additionalChecks, "; ")

\* a request whose fingerprint is one of the subject's trusted devices has
\* passed the Contextual Check, and so the device restriction was not added
C15_Witness ==
    /\ Applied
    /\ contextCheck # Null
    /\ ctx.metadata.deviceFingerprint = "device-2"
    /\ ctx.user.trustedDevices = <<"device-1", "device-2">>
    /\ contextCheck.allowed

\* the rules of the reference model of the Risk Scorer for a context, the
\* count of the subject's audit records of the last hour and the hour:
\* weight, tag and whether the rule triggers
ReferenceRiskRules(c, lastHourCount, hour) ==
    <<[weight |-> 30, tag |-> "high_frequency_operations",
       triggers |-> lastHourCount > 50],
      [weight |-> 20, tag |-> "high_risk_operation",
       triggers |-> c.action \in {"transfer", "withdraw", "delete", "admin"}],
      [weight |-> 25, tag |-> "large_transaction_amount",
       triggers |-> c.metadata.amount # NoAmount
                    /\ c.metadata.amount > 100000],
      [weight |-> 15, tag |-> "unusual_time_access",
       triggers |-> OutsideDayHours(hour)],
      [weight |-> 40, tag |-> "suspicious_ip_address",
       triggers |-> c.metadata.ipAddress \in {"192.168.1.100"}],
      [weight |-> 20, tag |-> "incomplete_kyc",
       triggers |-> c.user.kycStatus # KycStatus.APPROVED]>>

\* the sum of the weights of the rules that trigger
RECURSIVE ReferenceScore(_)
ReferenceScore(rules) ==
    IF rules = <<>> THEN 0
    ELSE (IF Head(rules).triggers THEN Head(rules).weight ELSE 0)
         + ReferenceScore(Tail(rules))

\* the tags of the rules that trigger
ReferenceFactors(rules) ==
    {rules[i].tag : i \in {j \in DOMAIN rules : rules[j].triggers}}

\* C16 as stated: for every context the Risk Scorer's result equals the
\* reference model: the score is the sum of the weights of exactly the
\* rules that trigger (30 for more than 50 audit records in the last hour,
\* 20 for an action in {transfer, withdraw, delete, admin}, 25 for an
\* amount present and > 100000, 15 for an hour outside [6, 22), 40 for an
\* origin address on the denylist, 20 for KYC not APPROVED), the factors
\* are the tags of exactly those rules, and the recommendation is DENY
\* for a score >= 70, CHALLENGE for >= 50, MONITOR for >= 30, else ALLOW.
C16_RiskScorerEqualsReference ==
    (Applied /\ riskAssessment # Null) =>
        LET rules == ReferenceRiskRules(ctx, recentActions.value, clock.hour)
            score == ReferenceScore(rules)
        IN  /\ riskAssessment.score = score
            /\ {riskAssessment.factors[i] :
                   i \in DOMAIN riskAssessment.factors}
               = ReferenceFactors(rules)
            /\ riskAssessment.recommendation =
                  (CASE score >= 70 -> "DENY"
                     [] score >= 50 /\ score < 70 -> "CHALLENGE"
                     [] score >= 30 /\ score < 50 -> "MONITOR"
                     [] OTHER -> "ALLOW")

\* the monitoring levels, weakest first
MonitoringLevels == <<"STANDARD", "ENHANCED", "STRICT">>

\* the position of a level in MonitoringLevels
Strength(level) == CHOOSE i \in DOMAIN MonitoringLevels :
                      MonitoringLevels[i] = level

\* the rules of the Session Policy Deriver that fire for a context
SensitiveAction(c) == c.action \in {"transfer", "withdraw", "admin", "delete"}

PrivilegedRole(c) ==
    c.user.role \in {UserRole.BANK_ADMIN, UserRole.COMPLIANCE_OFFICER}

LargeAmount(c) == c.metadata.amount # NoAmount /\ c.metadata.amount > 50000

\* the levels demanded by the rules that fire, and the default
DemandedLevels(c) ==
    {"STANDARD"}
    \cup (IF SensitiveAction(c) THEN {"ENHANCED"} ELSE {})
    \cup (IF PrivilegedRole(c) THEN {"STRICT"} ELSE {})
    \cup (IF LargeAmount(c) THEN {"STRICT"} ELSE {})

VetoRules ==
    <<[fires |-> failedAttempts.value > 5,
       reason |-> <<"Suspicious patterns detected: ",
                    "multiple_failed_login_attempts">>],
      [fires |-> /\ ctx.user.kycStatus # KycStatus.APPROVED
                 /\ ctx.action = "transfer"
                 /\ ctx.metadata.amount > 10000,
       reason |-> <<"Large transfers require KYC approval">>],
      [fires |-> /\ clock.isHoliday
                 /\ ctx.user.role = UserRole.CLIENT
                 /\ ctx.action \in {"transfer", "withdraw"},
       reason |-> <<"Banking operations limited during holidays">>]>>

\* the positions of the veto rules that fire
Firing == {i \in DOMAIN VetoRules : VetoRules[i].fires}

\* C18: the Dynamic Rule Engine evaluates its veto rules in the fixed
\* order suspicious pattern, unverified large transfer, holiday
\* restriction; the first rule that fires determines the result, which is
\* allowed=false with only that rule's reason, whatever the later rules
\* would say; when no rule fires the result is allowed=true.
C18_FirstVetoWins ==
    (Applied /\ dynamicCheck # Null) =>
        IF Firing = {}
        THEN dynamicCheck.allowed
        ELSE LET first == CHOOSE i \in Firing : \A j \in Firing : i <= j
             IN  dynamicCheck = [allowed |-> FALSE,
                                 reason |-> VetoRules[first].reason]

\* all three rules fire, and the denial carries the reason of the
\* suspicious-pattern rule alone
C18_Witness ==
    /\ Applied
    /\ dynamicCheck # Null
    /\ Firing = {1, 2, 3}
    /\ dynamicCheck.reason = VetoRules[1].reason

-----------------------------------------------------------------------------
(* Properties of the merged decision                                       *)

\* what the CHALLENGE case writes over the deriver's requirements
ChallengeRequirements ==
    [requireMFA |-> TRUE, requireReauth |-> TRUE,
     monitoringLevel |-> "ENHANCED"]

\* C19: when the three checks pass and the recommendation is CHALLENGE,
\* the decision has allowed=true and its session requirements are
\* requireMFA=true, requireReauth=true and monitoringLevel=ENHANCED
\* whatever the Session Policy Deriver computed, STRICT included, the
\* deriver's other fields being kept; for MONITOR or ALLOW the decision
\* has allowed=true and the deriver's requirements unmodified.
C19_ChallengeOverridesDeriver ==
    (Returned /\ ~StageThrew /\ AllThreePassed) =>
        /\ riskAssessment.recommendation = "CHALLENGE" =>
              /\ result.allowed
              /\ result.sessionRequirements =
                    Spread(sessionCheck, ChallengeRequirements)
        /\ riskAssessment.recommendation \in {"MONITOR", "ALLOW"} =>
              /\ result.allowed
              /\ result.sessionRequirements = sessionCheck

\* a CHALLENGE decision has replaced the deriver's STRICT by ENHANCED
C19_Witness ==
    /\ Returned
    /\ ~Malformed(ctx)
    /\ AllThreePassed
    /\ riskAssessment.recommendation = "CHALLENGE"
    /\ sessionCheck.monitoringLevel = "STRICT"
    /\ result.allowed
    /\ result.sessionRequirements.monitoringLevel = "ENHANCED"

-----------------------------------------------------------------------------
(* OrchestrationGuard (src/src/auth/guards/orchestration.guard.ts)         *)

\* the handler carries no @Orchestrate metadata
NoOptions == [undefined |-> TRUE]

\* orchestration.guard.ts:31-35: what the reflector finds on the handler;
\* a handler without metadata, one that skips orchestration, a read of the
\* accounts and a transfer declared with FinancialOperation
HandlerOptions ==
    {NoOptions,
     [skipOrchestration |-> TRUE, resource |-> "banking/accounts",
      action |-> "read"],
     [skipOrchestration |-> FALSE, resource |-> "banking/accounts",
      action |-> "read"],
     [skipOrchestration |-> FALSE, resource |-> "banking/transactions",
      action |-> "transfer"]}

\* orchestration.guard.ts:42-45, 59-68, 98: the parts of the request the
\* guard reads: request.user, the x-forwarded-for, x-device-fingerprint
\* and x-mfa-verified headers, the socket address and the amount
Requests ==
    [options : HandlerOptions,
     user : Users \cup {NoUser},
     forwardedFor : {Undefined, "192.168.1.100"},
     remoteAddress : {"203.0.113.7"},
     deviceFingerprint : {Undefined, "device-1"},
     mfaVerified : {Undefined, "true", "false"},
     amount : {NoAmount, 150000}]

\* the hours at which the guarded requests arrive
GuardHours == {2, 12}

\* orchestration.guard.ts:38
Orchestrated(req) ==
    req.options # NoOptions /\ ~req.options.skipOrchestration

\* orchestration.guard.ts:133-139
GetClientIP(req) ==
    IF req.forwardedFor # Undefined THEN req.forwardedFor
    ELSE req.remoteAddress

\* orchestration.guard.ts:53-71
AuthContextOf(req) ==
    [user |-> req.user,
     resource |-> req.options.resource,
     action |-> req.options.action,
     metadata |-> [amount |-> req.amount,
                   ipAddress |-> GetClientIP(req),
                   deviceFingerprint |-> req.deviceFingerprint]]

\* canActivate resolved with true
Activated == [resolved |-> TRUE]

\* canActivate rejected with an exception
Rejected(name, message) == [rejected |-> [name |-> name, message |-> message]]

\* orchestration.guard.ts:93-96
StepUpDeclared(decision) ==
    /\ "sessionRequirements" \in DOMAIN decision
    /\ \/ Truthy(decision.sessionRequirements, "requireMFA")
       \/ Truthy(decision.sessionRequirements, "requireReauth")

\* MfaPassed taking any x-mfa-verified header for the flag
MfaPassed_AnyValue(req) == req.mfaVerified # Undefined

\* orchestration.guard.ts:98
MfaPassed(req) == req.mfaVerified = "true"

GuardInit ==
    /\ pc = "idle"
    /\ ctx = Null
    /\ clock = Null
    /\ roleCheck = Null
    /\ contextCheck = Null
    /\ recentActions = Null
    /\ riskAssessment = Null
    /\ sessionCheck = Null
    /\ failedAttempts = Null
    /\ dynamicCheck = Null
    /\ pending = Null
    /\ error = Null
    /\ saveCalls = <<>>
    /\ result = Null
    /\ outcome = "none"
    /\ auditStore \in [UserIds -> InitialStores]
    /\ calls = 0
    /\ request \in Requests
    /\ activation = Null
    /\ RestIdle

\* orchestration.guard.ts:30-79: canActivate up to the awaited call of
\* orchestrateAuthorization, which starts with the context the guard built
GuardEnter(hour) ==
    /\ pc = "idle"
    /\ activation = Null
    /\ IF ~Orchestrated(request)
       THEN /\ activation' = Activated
            /\ UNCHANGED <<pc, ctx, clock, locals, pending, error, saveCalls,
                           result, outcome, auditStore, calls, request, restVars>>
       ELSE IF request.user = NoUser
       THEN /\ activation' = Rejected("UnauthorizedException",
                                      <<"User not authenticated">>)
            /\ UNCHANGED <<pc, ctx, clock, locals, pending, error, saveCalls,
                           result, outcome, auditStore, calls, request, restVars>>
       ELSE Begin(AuthContextOf(request), hour, FALSE)

\* orchestration.guard.ts:79-130: the awaited call has settled
GuardResume ==
    /\ pc = "done"
    /\ activation = Null
    /\ activation' =
          IF outcome = "thrown"
          THEN Rejected("ForbiddenException",
                        <<"Authorization failed due to internal error">>)
          ELSE IF ~result.allowed
          THEN Rejected("ForbiddenException", result.reason)
          ELSE IF StepUpDeclared(result) /\ ~MfaPassed(request)
          THEN Rejected("ForbiddenException",
                        <<"Multi-factor authentication required">>)
          ELSE Activated
    /\ UNCHANGED <<pc, ctx, clock, locals, pending, error, saveCalls, result,
                   outcome, auditStore, calls, request, restVars>>

GuardNext ==
    \/ \E hour \in GuardHours : GuardEnter(hour)
    \/ \E countOk \in BOOLEAN : RiskStage(countOk)
    \/ \E countOk \in BOOLEAN : DynamicStage(countOk)
    \/ \E saveOk \in BOOLEAN : LogStage(saveOk)
    \/ GuardResume

GuardSpec == GuardInit /\ [][GuardNext]_vars

\* C20: canActivate returns true for a request to an orchestrated handler
\* only if the engine's decision has allowed=true and, whenever the
\* decision declares requireMFA or requireReauth, the request carries
\* x-mfa-verified = "true"; a denied decision is rejected with the
\* decision's reason; an unmet step-up requirement, an absent subject and
\* an error inside the guard are rejected as well.
C20_GuardAdmitsOnlyAllowed ==
    (activation # Null /\ Orchestrated(request)) =>
        /\ activation = Activated =>
              /\ Returned
              /\ result.allowed
              /\ StepUpDeclared(result) => request.mfaVerified = "true"
        /\ (Returned /\ ~result.allowed) =>
              activation = Rejected("ForbiddenException", result.reason)
        /\ (Returned /\ result.allowed /\ StepUpDeclared(result)
            /\ request.mfaVerified # "true") =>
              activation = Rejected("ForbiddenException",
                                    <<"Multi-factor authentication required">>)
        /\ ~Returned => "rejected" \in DOMAIN activation

\* the guard has let through a request whose decision was allowed=true
\* with a step-up requirement and whose x-mfa-verified header was "true"
C20_Witness ==
    /\ activation = Activated
    /\ Orchestrated(request)
    /\ Returned
    /\ result.allowed
    /\ StepUpDeclared(result)
    /\ request.mfaVerified = "true"

-----------------------------------------------------------------------------
(* Calls of orchestrateAuthorization in flight at the same time            *)
(*                                                                         *)
(* The service object holds no field that a call writes (part_005:42-51):  *)
(* every call has its own locals, and the calls meet in the audit table.   *)

\* the locals of a call that has not started
IdleCall ==
    [pc |-> "idle", ctx |-> Null, clock |-> Null, roleCheck |-> Null,
     contextCheck |-> Null, recentActions |-> Null, riskAssessment |-> Null,
     sessionCheck |-> Null, failedAttempts |-> Null, dynamicCheck |-> Null,
     pending |-> Null, error |-> Null, saveCalls |-> <<>>, result |-> Null,
     outcome |-> "none"]

\* part_005:56-78: the locals of a call after the Role Check and, when it
\* allowed, the Contextual Check
StartCall(c, hour, isHoliday) ==
    LET call == [IdleCall EXCEPT !.ctx = c,
                                 !.clock = [hour |-> hour,
                                            isHoliday |-> isHoliday]]
    IN  IF c.user = NoUser
        THEN [call EXCEPT !.outcome = "thrown", !.pc = "done"]
        ELSE IF ResourceLookupThrows(c.user.role, c.resource)
        THEN LET message ==
                     <<"resourcePermissions.includes is not a function">>
             IN  [call EXCEPT !.error = [message |-> message],
                              !.pending = CatchBlock(message),
                              !.pc = "log"]
        ELSE LET role == CheckRoleBasedAccess(c)
                 context == CheckContextualAccess(c, hour)
             IN  IF ~role.allowed
                 THEN [call EXCEPT !.roleCheck = role,
                                   !.pending = [action |-> "ROLE_CHECK_FAILED",
                                                details |-> role.reason,
                                                metadata |-> NoMetadata,
                                                returns |-> role],
                                   !.pc = "log"]
                 ELSE IF ~context.allowed
                 THEN [call EXCEPT !.roleCheck = role,
                                   !.contextCheck = context,
                                   !.pending =
                                       [action |-> "CONTEXT_CHECK_FAILED",
                                        details |-> context.reason,
                                        metadata |-> NoMetadata,
                                        returns |-> context],
                                   !.pc = "log"]
                 ELSE [call EXCEPT !.roleCheck = role,
                                   !.contextCheck = context,
                                   !.pc = "risk"]

\* part_005:107-122: the locals of a call whose try block threw
CallCaught(call, message) ==
    [call EXCEPT !.error = [message |-> message],
                 !.pending = CatchBlock(message),
                 !.pc = "log"]

\* part_005:81-84: the locals after the last-hour count query settled
CallAfterRisk(call, store, countOk) ==
    IF countOk
    THEN LET n == GetRecentUserActions(store, call.ctx.user.id)
         IN  [call EXCEPT !.recentActions = [ok |-> TRUE, value |-> n],
                          !.riskAssessment =
                              AssessRisk(call.ctx, n, call.clock.hour),
                          !.sessionCheck = CheckSessionConstraints(call.ctx),
                          !.pc = "dynamic"]
    ELSE CallCaught([call EXCEPT !.recentActions = [ok |-> FALSE]],
                    <<"count query failed">>)

\* part_005:87-104: the locals after the LOGIN_FAILED count query settled
CallAfterDynamic(call, store, countOk) ==
    IF countOk
    THEN LET n == CountFailedAttempts(store, call.ctx.user.id)
             dynamic == ApplyDynamicSecurityRules(call.ctx, n,
                                                  call.clock.isHoliday)
             finalDecision ==
                 MakeFinalDecision(call.roleCheck, call.contextCheck,
                                   call.riskAssessment, call.sessionCheck,
                                   dynamic)
         IN  [call EXCEPT !.failedAttempts = [ok |-> TRUE, value |-> n],
                          !.dynamicCheck = dynamic,
                          !.pending = [action |-> FinalEvent(finalDecision),
                                       details |-> finalDecision.reason,
                                       metadata |->
                                           [decision |-> finalDecision],
                                       returns |-> finalDecision],
                          !.pc = "log"]
    ELSE CallCaught([call EXCEPT !.failedAttempts = [ok |-> FALSE]],
                    <<"count query failed">>)

\* part_005:485-507 and the return after it: the locals after
\* auditRepository.save settled
CallAfterLog(call, saveOk) ==
    LET saved == [call EXCEPT
                     !.saveCalls =
                         Append(@, [entity |->
                                        AuditEntity(call.ctx,
                                                    call.pending.action,
                                                    call.pending.details,
                                                    call.pending.metadata),
                                    ok |-> saveOk])]
    IN  IF ~LogAuthEventThrows(saveOk)
        THEN [saved EXCEPT !.result = call.pending.returns,
                           !.outcome = "returned",
                           !.pc = "done"]
        ELSE IF call.pending.action # "ORCHESTRATION_ERROR"
        THEN CallCaught(saved, <<"save failed">>)
        ELSE [saved EXCEPT !.outcome = "thrown", !.pc = "done"]

\* the single call, the guard and the other services are not modelled
SingleCallIdle ==
    /\ pc = "idle"
    /\ ctx = Null
    /\ clock = Null
    /\ roleCheck = Null
    /\ contextCheck = Null
    /\ recentActions = Null
    /\ riskAssessment = Null
    /\ sessionCheck = Null
    /\ failedAttempts = Null
    /\ dynamicCheck = Null
    /\ pending = Null
    /\ error = Null
    /\ saveCalls = <<>>
    /\ result = Null
    /\ outcome = "none"
    /\ calls = 0
    /\ request = Null
    /\ activation = Null
    /\ AuthIdle
    /\ BankIdle

singleCallVars ==
    <<pc, ctx, clock, locals, pending, error, saveCalls, result, outcome,
      calls, guardVars, authVars, bankVars>>

\* the calls in flight
Procs == {"p1", "p2"}

\* the subjects of the calls
Subjects == {"u1", "u2"}

\* the contexts of the concurrent calls: a client or an administrator
\* reading the accounts or transferring 150000
ConcurrentContexts ==
    {StageContext(role, KycStatus.APPROVED, <<>>, "banking/accounts",
                  op.action, op.amount, Undefined, Undefined)
        : role \in {UserRole.CLIENT, UserRole.BANK_ADMIN},
          op \in {[action |-> "read", amount |-> NoAmount],
                  [action |-> "transfer", amount |-> 150000]}}

\* the same context for another subject
ForSubject(c, userId) == [c EXCEPT !.user.id = userId]

ConcurrentHours == {2, 12}

\* the audit table of a subject before the calls
ConcurrentStores ==
    {[loginFailed30 |-> 0, lastHour |-> 0],
     [loginFailed30 |-> 0, lastHour |-> 50],
     [loginFailed30 |-> 6, lastHour |-> 6]}

ConcurrentInit ==
    /\ SingleCallIdle
    /\ procs = [p \in Procs |-> IdleCall]
    /\ auditStore \in [Subjects -> ConcurrentStores]
    /\ initialStore = auditStore

\* part_005:56-78 for call p
CallBegin(p, c, hour) ==
    /\ procs[p].pc = "idle"
    /\ procs' = [procs EXCEPT ![p] = StartCall(c, hour, FALSE)]
    /\ UNCHANGED <<auditStore, initialStore, singleCallVars>>

\* part_005:81-84 for call p
CallRiskStage(p, countOk) ==
    /\ procs[p].pc = "risk"
    /\ procs' = [procs EXCEPT ![p] = CallAfterRisk(@, auditStore, countOk)]
    /\ UNCHANGED <<auditStore, initialStore, singleCallVars>>

\* part_005:87-104 for call p
CallDynamicStage(p, countOk) ==
    /\ procs[p].pc = "dynamic"
    /\ procs' = [procs EXCEPT ![p] = CallAfterDynamic(@, auditStore, countOk)]
    /\ UNCHANGED <<auditStore, initialStore, singleCallVars>>

\* part_005:485-507 for call p
CallLogStage(p, saveOk) ==
    /\ procs[p].pc = "log"
    /\ procs' = [procs EXCEPT ![p] = CallAfterLog(@, saveOk)]
    /\ auditStore' = IF saveOk
                     THEN SaveRecord(auditStore, procs[p].ctx.user.id)
                     ELSE auditStore
    /\ UNCHANGED <<initialStore, singleCallVars>>

ConcurrentNext ==
    \/ \E p \in Procs, c \in ConcurrentContexts, u \in Subjects,
          hour \in ConcurrentHours : CallBegin(p, ForSubject(c, u), hour)
    \/ \E p \in Procs, countOk \in BOOLEAN : CallRiskStage(p, countOk)
    \/ \E p \in Procs, countOk \in BOOLEAN : CallDynamicStage(p, countOk)
    \/ \E p \in Procs, saveOk \in BOOLEAN : CallLogStage(p, saveOk)

ConcurrentSpec == ConcurrentInit /\ [][ConcurrentNext]_vars

-----------------------------------------------------------------------------
(* Properties of the concurrent calls                                      *)

\* call p has settled
Settled(p) == procs[p].pc = "done"

\* C21: two calls of orchestrateAuthorization with identical context, at
\* the same hour and date, whose two count queries gave the same answers,
\* end in the same way and return identical decisions, whatever happened
\* to their audit appends.
C21_Idempotent ==
    \A p \in Procs, q \in Procs :
        (/\ procs # Null
         /\ Settled(p) /\ Settled(q)
         /\ procs[p].ctx = procs[q].ctx
         /\ procs[p].clock = procs[q].clock
         /\ procs[p].recentActions = procs[q].recentActions
         /\ procs[p].failedAttempts = procs[q].failedAttempts) =>
            /\ procs[p].outcome = procs[q].outcome
            /\ procs[p].result = procs[q].result

\* two calls with the same context, hour and count answers have returned
\* the same grant although the audit append of only one of them succeeded
C21_Witness ==
    /\ procs # Null
    /\ Settled("p1") /\ Settled("p2")
    /\ procs["p1"].ctx = procs["p2"].ctx
    /\ procs["p1"].clock = procs["p2"].clock
    /\ procs["p1"].recentActions = procs["p2"].recentActions
    /\ procs["p1"].failedAttempts = procs["p2"].failedAttempts
    /\ procs["p1"].failedAttempts # Null
    /\ ~procs["p1"].saveCalls[1].ok
    /\ procs["p2"].saveCalls[1].ok
    /\ procs["p1"].result.allowed
    /\ procs["p1"].result = procs["p2"].result

\* no other call in flight is for the subject of call p
AloneForSubject(p) ==
    \A q \in Procs \ {p} :
        procs[q].ctx = Null \/ procs[q].ctx.user.id # procs[p].ctx.user.id

\* C23: a call that runs concurrently only with calls for other subjects
\* returns the decision it returns when run alone: its count queries see
\* the subject's records as they were before any call began, under every
\* interleaving of the stages and the audit appends of the calls.
C23_SubjectsIndependent ==
    \A p \in Procs :
        (procs # Null /\ Settled(p) /\ AloneForSubject(p)) =>
            LET call == procs[p]
                before == initialStore[call.ctx.user.id]
            IN  /\ call.outcome = "returned"
                /\ (call.recentActions # Null /\ call.recentActions.ok) =>
                      call.recentActions.value = before.lastHour
                /\ (call.failedAttempts # Null /\ call.failedAttempts.ok) =>
                      call.failedAttempts.value = before.loginFailed30
                /\ call.result = Verdict(call.ctx, call.clock,
                                         call.recentActions,
                                         call.failedAttempts)

\* two calls for different subjects have both passed the Risk Scorer and
\* both appended their audit record
C23_Witness ==
    /\ procs # Null
    /\ Settled("p1") /\ Settled("p2")
    /\ procs["p1"].ctx.user.id # procs["p2"].ctx.user.id
    /\ procs["p1"].riskAssessment # Null
    /\ procs["p2"].riskAssessment # Null
    /\ procs["p1"].saveCalls[1].ok
    /\ procs["p2"].saveCalls[1].ok

\* call p passes the Risk Scorer in this step, its count query answering
PassesRiskScorer(p) ==
    /\ procs[p].pc = "risk"
    /\ procs'[p].pc = "dynamic"

\* call p appends its audit record in this step
AppendsRecord(p) ==
    /\ procs[p].pc = "log"
    /\ Len(procs'[p].saveCalls) = Len(procs[p].saveCalls) + 1
    /\ procs'[p].saveCalls[Len(procs'[p].saveCalls)].ok

-----------------------------------------------------------------------------
(* AuthService and AuthController: login, refresh and logout               *)

\* number of requests to the auth endpoints in one behaviour
MaxRequests == 4

\* src/src/common/enums/index.ts:47-50
AuditAction == [LOGIN |-> "login", LOGOUT |-> "logout",
                LOGIN_FAILED |-> "login_failed"]

\* the primary key of the account of the model (part_000:89-90, a uuid)
AccountId == [uuid |-> "u1"]

AccountEmail == "client@bank.example"

\* the e-mail addresses a login names: the account's and an unknown one
Emails == {AccountEmail, "nobody@bank.example"}

\* the passwords a login sends: the account's and another one
Passwords == {"right", "wrong"}

\* twoFactorCode absent, the code validateTwoFactorCode accepts
\* (part_006:213), and another one
TwoFactorCodes == {Undefined, "123456", "000000"}

\* the values of new Date(), in minutes
Times == {0, 15, 30}

\* a Date, as the lockedUntil column holds it
DateAt(minutes) == [time |-> minutes]

\* part_006:187  30 * 60 * 1000 ms
LockMinutes == 30

\* part_006:187  attempts >= 5
LockThreshold == 5

\* loginAttempts of the account before the first request of the behaviour
InitialAttempts == {0, 3, 4}

\* part_006:156-173: the refresh token signed for a user; serial stands
\* for the iat and exp claims, which differ from one signature to the next
SignRefreshToken(userId, serial) == [sub |-> userId, serial |-> serial]

\* bcryptjs reads the first 72 bytes of its input: of a signed token
\* these are the header and the beginning of the payload, up to the first
\* characters of sub; a shorter value, such as a uuid, is read whole
Truncate72(value) ==
    IF "sub" \in DOMAIN value THEN [sub |-> value.sub] ELSE value

\* part_006:179  bcrypt.hash(refreshToken, 12)
BcryptHash(token) == [hashOf |-> Truncate72(token)]

\* part_006:124-127  bcrypt.compare(refreshToken, user.refreshToken)
BcryptCompare(token, hashed) == hashed = BcryptHash(token)

\* part_006:80  bcrypt.compare(password, user.password)
PasswordValid(password, user) == password = user.password

\* part_006:207-214
ValidateTwoFactorCode(code) == code = "123456"

\* the value has the form of a uuid
IsUuid(value) == DOMAIN value = {"uuid"}

\* part_006:68-70  userRepository.findOne({where: {email}})
FindOneByEmail(table, email) ==
    IF \E id \in DOMAIN table : table[id].email = email
    THEN table[CHOOSE id \in DOMAIN table : table[id].email = email]
    ELSE Null

\* part_006:116-118 and 184  userRepository.findOne({where: {id}}): the
\* row, null when there is none, and a rejected query when the value is
\* not a uuid (the id column is a Postgres uuid)
FindOneById(table, id) ==
    IF ~IsUuid(id) THEN [queryFailed |-> TRUE]
    ELSE IF id \in DOMAIN table THEN table[id]
    ELSE Null

\* a call of login that is not in flight
IdleLogin ==
    [pc |-> "idle", userId |-> Null, attempts |-> Null, lockUntil |-> Null,
     tokens |-> Null, outcome |-> Null]

\* the requests in flight at the same time
LoginProcs == {"r1", "r2"}

\* no call of login is between two of its awaits
Quiet == \A r \in LoginProcs : logins[r].pc = "idle"

\* the account is active, with no lock and no refresh token
AuthInit ==
    /\ \E k \in InitialAttempts, twoFactor \in BOOLEAN :
          /\ users = [id \in {AccountId} |->
                        [id |-> id, email |-> AccountEmail,
                         password |-> "right", isActive |-> TRUE,
                         twoFactorEnabled |-> twoFactor,
                         refreshToken |-> Null, loginAttempts |-> k,
                         lockedUntil |-> Null]]
          /\ authLog = [requests |-> 0, initialAttempts |-> k, failed |-> 0,
                        succeeded |-> FALSE, serial |-> 0, issued |-> {},
                        loggedOut |-> FALSE, lastRefresh |-> Null]
    /\ now = 0
    /\ logins = [r \in LoginProcs |-> IdleLogin]
    /\ auditLog = <<>>
    /\ pc = "idle"
    /\ ctx = Null
    /\ clock = Null
    /\ roleCheck = Null
    /\ contextCheck = Null
    /\ recentActions = Null
    /\ riskAssessment = Null
    /\ sessionCheck = Null
    /\ failedAttempts = Null
    /\ dynamicCheck = Null
    /\ pending = Null
    /\ error = Null
    /\ saveCalls = <<>>
    /\ result = Null
    /\ outcome = "none"
    /\ calls = 0
    /\ auditStore = Null
    /\ request = Null
    /\ activation = Null
    /\ procs = Null
    /\ initialStore = Null
    /\ BankIdle

\* what the auth endpoints leave alone
authFrame ==
    <<pc, ctx, clock, locals, pending, error, saveCalls, result, outcome,
      calls, auditStore, guardVars, procs, initialStore, bankVars>>

\* login answers without having written anything
LoginAnswers(r, response) ==
    logins' = [logins EXCEPT ![r] = [IdleLogin EXCEPT !.outcome = response]]

\* part_006:62-99: findOne by e-mail, the checks on the row it returned,
\* the password and the two-factor code
LoginStart(r, email, password, code) ==
    /\ logins[r].pc = "idle"
    /\ authLog.requests < MaxRequests
    /\ authLog' = [authLog EXCEPT !.requests = @ + 1]
    /\ UNCHANGED <<users, now, auditLog, authFrame>>
    /\ LET user == FindOneByEmail(users, email)
       IN  IF user = Null \/ ~user.isActive
           THEN LoginAnswers(r, "Invalid credentials")
           ELSE IF user.lockedUntil # Null /\ user.lockedUntil.time > now
           THEN LoginAnswers(r, "Account is locked")
           ELSE IF ~PasswordValid(password, user)
           THEN logins' = [logins EXCEPT ![r] =
                              [IdleLogin EXCEPT !.pc = "failRead",
                                                !.userId = user.id]]
           ELSE IF user.twoFactorEnabled /\ code = Undefined
           THEN LoginAnswers(r, "Two-factor code required")
           ELSE IF user.twoFactorEnabled /\ ~ValidateTwoFactorCode(code)
           THEN LoginAnswers(r, "Invalid two-factor code")
           ELSE logins' = [logins EXCEPT ![r] =
                              [IdleLogin EXCEPT !.pc = "success",
                                                !.userId = user.id]]

\* part_006:184-187: handleFailedLogin reads the row again and computes
\* the new values
FailedLoginRead(r) ==
    /\ logins[r].pc = "failRead"
    /\ LET user == FindOneById(users, logins[r].userId)
           attempts == user.loginAttempts + 1
       IN  logins' = [logins EXCEPT ![r].pc = "failWrite",
                                    ![r].attempts = attempts,
                                    ![r].lockUntil =
                                        IF attempts >= LockThreshold
                                        THEN DateAt(now + LockMinutes)
                                        ELSE Null]
    /\ UNCHANGED <<users, now, auditLog, authLog, authFrame>>

\* part_006:189-192 and 84: handleFailedLogin writes the values it
\* computed, and login throws
FailedLoginWrite(r) ==
    /\ logins[r].pc = "failWrite"
    /\ users' = [users EXCEPT
                   ![logins[r].userId].loginAttempts = logins[r].attempts,
                   ![logins[r].userId].lockedUntil = logins[r].lockUntil]
    /\ LoginAnswers(r, "Invalid credentials")
    /\ authLog' = [authLog EXCEPT !.failed = @ + 1]
    /\ UNCHANGED <<now, auditLog, authFrame>>

\* part_006:101 and 195-205: handleSuccessfulLogin
SuccessfulLoginWrite(r) ==
    /\ logins[r].pc = "success"
    /\ users' = [users EXCEPT ![logins[r].userId].loginAttempts = 0,
                              ![logins[r].userId].lockedUntil = Null]
    /\ logins' = [logins EXCEPT ![r].pc = "tokens"]
    /\ authLog' = [authLog EXCEPT !.succeeded = TRUE]
    /\ UNCHANGED <<now, auditLog, authFrame>>

\* part_006:103-104: generateTokens and updateRefreshToken
LoginTokens(r) ==
    /\ logins[r].pc = "tokens"
    /\ LET token == SignRefreshToken(logins[r].userId, authLog.serial + 1)
       IN  /\ users' = [users EXCEPT ![logins[r].userId].refreshToken =
                                         BcryptHash(token)]
           /\ logins' = [logins EXCEPT ![r].pc = "audit",
                                       ![r].tokens = token]
    /\ authLog' = [authLog EXCEPT !.serial = @ + 1]
    /\ UNCHANGED <<now, auditLog, authFrame>>

\* part_006:216-230: auditLogRepository.save of one record
CreateAuditLog(log, userId, action, at) ==
    Append(log, [userId |-> userId, action |-> action, at |-> at])

\* part_006:106-109: the LOGIN record is saved and login returns the
\* tokens, or the save rejects and login rejects with it
LoginAudit(r, saveOk) ==
    /\ logins[r].pc = "audit"
    /\ UNCHANGED <<users, now, authFrame>>
    /\ IF saveOk
       THEN /\ auditLog' = CreateAuditLog(auditLog, logins[r].userId,
                                          AuditAction.LOGIN, now)
            /\ logins' = [logins EXCEPT ![r].pc = "idle",
                                        ![r].outcome = "tokens"]
            /\ authLog' = [authLog EXCEPT
                              !.issued = @ \cup {logins[r].tokens},
                              !.loggedOut = FALSE]
       ELSE /\ LoginAnswers(r, "Internal server error")
            /\ UNCHANGED <<auditLog, authLog>>

\* part_006:112-137: what refreshTokens answers and the users table it
\* leaves, newToken being the refresh token generateTokens would sign
RefreshTokens(table, userId, refreshToken, newToken) ==
    LET user == FindOneById(table, userId)
    IN  IF user = [queryFailed |-> TRUE]
        THEN [outcome |-> "Internal server error", table |-> table]
        ELSE IF user = Null \/ user.refreshToken = Null
        THEN [outcome |-> "Access denied", table |-> table]
        ELSE IF ~BcryptCompare(refreshToken, user.refreshToken)
        THEN [outcome |-> "Access denied", table |-> table]
        ELSE [outcome |-> "tokens",
              table |-> [table EXCEPT ![user.id].refreshToken =
                                         BcryptHash(newToken)]]

\* part_004:33-40: POST /auth/refresh hands the refresh token of the body
\* to refreshTokens twice, as the user id and as the token
ControllerRefreshTokens(table, refreshToken, newToken) ==
    RefreshTokens(table, refreshToken, refreshToken, newToken)

\* what a client sends as refreshToken: a token a login returned, or the
\* id of the account
RefreshBodies == authLog.issued \cup {AccountId}

\* POST /auth/refresh
PostRefresh(body) ==
    /\ authLog.requests < MaxRequests
    /\ LET newToken == SignRefreshToken(AccountId, authLog.serial + 1)
           answer == ControllerRefreshTokens(users, body, newToken)
       IN  /\ users' = answer.table
           /\ authLog' = [authLog EXCEPT
                             !.requests = @ + 1,
                             !.serial = IF answer.outcome = "tokens"
                                        THEN @ + 1 ELSE @,
                             !.lastRefresh =
                                 [body |-> body,
                                  outcome |-> answer.outcome,
                                  loggedOut |-> authLog.loggedOut]]
    /\ UNCHANGED <<now, logins, auditLog, authFrame>>

\* part_004:42-47 and part_006:139-142: POST /auth/logout of a client that
\* holds the access token of a login
PostLogout(saveOk) ==
    /\ authLog.requests < MaxRequests
    /\ authLog.issued # {}
    /\ users' = [users EXCEPT ![AccountId].refreshToken = Null]
    /\ auditLog' = IF saveOk
                   THEN CreateAuditLog(auditLog, AccountId,
                                       AuditAction.LOGOUT, now)
                   ELSE auditLog
    /\ authLog' = [authLog EXCEPT !.requests = @ + 1, !.loggedOut = TRUE]
    /\ UNCHANGED <<now, logins, authFrame>>

\* time passes
Tick ==
    /\ \E t \in Times : t > now /\ now' = t
    /\ UNCHANGED <<users, logins, auditLog, authLog, authFrame>>

AuthNext ==
    \/ \E r \in LoginProcs, email \in Emails, password \in Passwords,
          code \in TwoFactorCodes : LoginStart(r, email, password, code)
    \/ \E r \in LoginProcs : FailedLoginRead(r)
    \/ \E r \in LoginProcs : FailedLoginWrite(r)
    \/ \E r \in LoginProcs : SuccessfulLoginWrite(r)
    \/ \E r \in LoginProcs : LoginTokens(r)
    \/ \E r \in LoginProcs, saveOk \in BOOLEAN : LoginAudit(r, saveOk)
    \/ \E body \in RefreshBodies : PostRefresh(body)
    \/ \E saveOk \in BOOLEAN : PostLogout(saveOk)
    \/ Tick

AuthSpec == AuthInit /\ [][AuthNext]_vars

-----------------------------------------------------------------------------
(* Properties of AuthService                                               *)

\* the audit records of a user with a given action
RecordsOf(log, userId, action) ==
    {i \in DOMAIN log : log[i].userId = userId /\ log[i].action = action}

\* C26: every failed password attempt in AuthService.login is audited as
\* a LOGIN_FAILED record of that user (the records the suspicious-pattern
\* rule of the authorization pipeline counts).
C26_FailedLoginsAudited ==
    Quiet =>
        Cardinality(RecordsOf(auditLog, AccountId, AuditAction.LOGIN_FAILED))
            = authLog.failed

\* C27: POST /auth/refresh with a refresh token that a login returned
\* answers with a new token pair when the user has not logged out since,
\* and rejects the token after a logout.
C27_RefreshAfterLogin ==
    (authLog.lastRefresh # Null
        /\ authLog.lastRefresh.body \in authLog.issued) =>
            (authLog.lastRefresh.outcome = "tokens"
                <=> ~authLog.lastRefresh.loggedOut)

\* C28: once the account has accumulated 5 failed password attempts with
\* no successful login in between, lockedUntil is set, 30 minutes ahead of
\* a failed attempt.
C28_FiveFailuresLock ==
    (Quiet /\ ~authLog.succeeded
        /\ authLog.initialAttempts + authLog.failed >= LockThreshold) =>
            /\ users[AccountId].lockedUntil # Null
            /\ users[AccountId].lockedUntil.time \in
                  {t + LockMinutes : t \in Times}

\* C29: after any interleaving of N failed password attempts on the
\* account starting from loginAttempts = k, with no successful login in
\* between, loginAttempts equals k + N.
C29_NoLostFailedLogin ==
    (Quiet /\ ~authLog.succeeded) =>
        users[AccountId].loginAttempts
            = authLog.initialAttempts + authLog.failed

-----------------------------------------------------------------------------
(* BankingService.transfer                                                 *)

\* number of calls of transfer in one behaviour
MaxTransfers == 3

\* src/src/banking/banking.service.ts:300
LargeAmountThreshold == 10000

\* banking.service.ts:301-302
SuspiciousHoursStart == 23

SuspiciousHoursEnd == 6

\* the status of an account that may send and receive
ActiveStatus == "active"

\* the two accounts of the model: a1 of user u1, a2 of user u2
AccountIds == {"a1", "a2"}

AccountNumbers == [a1 |-> "123400000001", a2 |-> "123400000002"]

AccountOwners == [a1 |-> "u1", a2 |-> "u2"]

\* the amounts of the transfers (TransferDto.amount is positive)
TransferAmounts == {60, 100}

\* the hours at which processTransaction runs: by day and at night
TransferHours == {2, 12}

\* balance and availableBalance of each account before the first transfer
OpeningBalance == 100

\* banking.service.ts:112-114  findOne({where: {id, userId}})
FindOwnAccount(table, id, userId) ==
    IF id \in DOMAIN table /\ table[id].userId = userId
    THEN table[id]
    ELSE Null

\* banking.service.ts:128-130  findOne({where: {accountNumber}})
FindByNumber(table, number) ==
    IF \E id \in DOMAIN table : table[id].accountNumber = number
    THEN table[CHOOSE id \in DOMAIN table : table[id].accountNumber = number]
    ELSE Null

\* banking.service.ts:298-331: the amount rule and the hour rule; the
\* count of the third rule compares createdAt for equality with a moment
\* ten minutes ago, which no row has, so it is 0 and never > 3
DetectFraud(amount, hour) ==
    \/ amount > LargeAmountThreshold
    \/ hour >= SuspiciousHoursStart
    \/ hour <= SuspiciousHoursEnd

\* a call of transfer that is not in flight
IdleTransfer ==
    [pc |-> "idle", fromAccountId |-> Null, toAccountId |-> Null,
     amount |-> 0, outcome |-> Null]

\* the calls of transfer in flight at the same time
TransferProcs == {"t1", "t2"}

\* no call of transfer is between two of its awaits
BankSettled == \A t \in TransferProcs : transfers[t].pc = "idle"

BankInit ==
    /\ accounts = [id \in AccountIds |->
                     [id |-> id, userId |-> AccountOwners[id],
                      accountNumber |-> AccountNumbers[id],
                      status |-> ActiveStatus, isBlocked |-> FALSE,
                      balance |-> OpeningBalance,
                      availableBalance |-> OpeningBalance]]
    /\ transfers = [t \in TransferProcs |-> IdleTransfer]
    /\ bankLog = [opening |-> accounts, started |-> 0, completed |-> 0]
    /\ pc = "idle"
    /\ ctx = Null
    /\ clock = Null
    /\ roleCheck = Null
    /\ contextCheck = Null
    /\ recentActions = Null
    /\ riskAssessment = Null
    /\ sessionCheck = Null
    /\ failedAttempts = Null
    /\ dynamicCheck = Null
    /\ pending = Null
    /\ error = Null
    /\ saveCalls = <<>>
    /\ result = Null
    /\ outcome = "none"
    /\ calls = 0
    /\ auditStore = Null
    /\ request = Null
    /\ activation = Null
    /\ procs = Null
    /\ initialStore = Null
    /\ AuthIdle

\* what transfer leaves alone
bankFrame ==
    <<pc, ctx, clock, locals, pending, error, saveCalls, result, outcome,
      calls, auditStore, guardVars, procs, initialStore, authVars>>

\* transfer throws before it has written anything
TransferThrows(t, message) ==
    transfers' = [transfers EXCEPT
                     ![t] = [IdleTransfer EXCEPT !.outcome = message]]

\* banking.service.ts:105-162: the two findOne calls, the checks on the
\* rows they returned, the daily limit and the PENDING transaction; the
\* sum of the day comes from the transactions table and either passes the
\* limit or does not
TransferStart(t, userId, fromAccountId, toAccountNumber, amount, overLimit) ==
    /\ transfers[t].pc = "idle"
    /\ bankLog.started < MaxTransfers
    /\ bankLog' = [bankLog EXCEPT !.started = @ + 1]
    /\ UNCHANGED <<accounts, bankFrame>>
    /\ LET fromAccount == FindOwnAccount(accounts, fromAccountId, userId)
           toAccount == FindByNumber(accounts, toAccountNumber)
       IN  IF fromAccount = Null
           THEN TransferThrows(t, "Source account not found")
           ELSE IF fromAccount.status # ActiveStatus
           THEN TransferThrows(t, "Source account is not active")
           ELSE IF fromAccount.isBlocked
           THEN TransferThrows(t, "Source account is blocked")
           ELSE IF toAccount = Null
           THEN TransferThrows(t, "Destination account not found")
           ELSE IF toAccount.status # ActiveStatus
           THEN TransferThrows(t, "Destination account is not active")
           ELSE IF fromAccount.availableBalance < amount
           THEN TransferThrows(t, "Insufficient funds")
           ELSE IF overLimit
           THEN TransferThrows(t, "Daily transaction limit exceeded")
           ELSE transfers' = [transfers EXCEPT
                                 ![t] = [pc |-> "process",
                                         fromAccountId |-> fromAccountId,
                                         toAccountId |-> toAccount.id,
                                         amount |-> amount,
                                         outcome |-> Null]]

\* banking.service.ts:249-267: detectFraud, and either the transaction is
\* put under review or the first update runs
ProcessTransaction(t, hour) ==
    /\ transfers[t].pc = "process"
    /\ UNCHANGED <<bankLog, bankFrame>>
    /\ IF DetectFraud(transfers[t].amount, hour)
       THEN /\ transfers' = [transfers EXCEPT
                               ![t] = [IdleTransfer EXCEPT
                                          !.outcome = "under_review"]]
            /\ UNCHANGED accounts
       ELSE /\ accounts' = [accounts EXCEPT
                              ![transfers[t].fromAccountId].balance =
                                  @ - transfers[t].amount]
            /\ transfers' = [transfers EXCEPT ![t].pc = "debitAvailable"]

\* banking.service.ts:269-273
DebitAvailable(t) ==
    /\ transfers[t].pc = "debitAvailable"
    /\ accounts' = [accounts EXCEPT
                      ![transfers[t].fromAccountId].availableBalance =
                          @ - transfers[t].amount]
    /\ transfers' = [transfers EXCEPT ![t].pc = "creditBalance"]
    /\ UNCHANGED <<bankLog, bankFrame>>

\* banking.service.ts:275-279
CreditBalance(t) ==
    /\ transfers[t].pc = "creditBalance"
    /\ accounts' = [accounts EXCEPT
                      ![transfers[t].toAccountId].balance =
                          @ + transfers[t].amount]
    /\ transfers' = [transfers EXCEPT ![t].pc = "creditAvailable"]
    /\ UNCHANGED <<bankLog, bankFrame>>

\* banking.service.ts:281-290 and 167-174: the last update, the
\* transaction is COMPLETED and transfer returns it
CreditAvailable(t) ==
    /\ transfers[t].pc = "creditAvailable"
    /\ accounts' = [accounts EXCEPT
                      ![transfers[t].toAccountId].availableBalance =
                          @ + transfers[t].amount]
    /\ transfers' = [transfers EXCEPT
                        ![t] = [IdleTransfer EXCEPT !.outcome = "completed"]]
    /\ bankLog' = [bankLog EXCEPT !.completed = @ + 1]
    /\ UNCHANGED bankFrame

BankNext ==
    \/ \E t \in TransferProcs, fromAccountId \in AccountIds,
          toAccountId \in AccountIds, amount \in TransferAmounts,
          overLimit \in BOOLEAN :
          TransferStart(t, "u1", fromAccountId,
                        AccountNumbers[toAccountId], amount, overLimit)
    \/ \E t \in TransferProcs, hour \in TransferHours :
          ProcessTransaction(t, hour)
    \/ \E t \in TransferProcs : DebitAvailable(t)
    \/ \E t \in TransferProcs : CreditBalance(t)
    \/ \E t \in TransferProcs : CreditAvailable(t)

BankSpec == BankInit /\ [][BankNext]_vars

-----------------------------------------------------------------------------
(* Properties of BankingService.transfer                                   *)

\* the sum of the balances of the accounts of a table
RECURSIVE SumOfBalances(_, _)
SumOfBalances(table, ids) ==
    IF ids = {} THEN 0
    ELSE LET id == CHOOSE a \in ids : TRUE
         IN  table[id].balance + SumOfBalances(table, ids \ {id})

\* C30: after any sequence and any interleaving of transfer calls no
\* account's availableBalance is negative and the sum of all balances is
\* unchanged.
C30_BalancesStayValid ==
    BankSettled =>
        /\ \A id \in AccountIds : accounts[id].availableBalance >= 0
        /\ SumOfBalances(accounts, AccountIds)
              = SumOfBalances(bankLog.opening, AccountIds)

====
